---- MODULE Spec2Model ----
(***************************************************************************)
(* A model of grusin (src/grusin/__init__.py): the UIRuntime input state   *)
(* machine (process_events), the control tree with its effective           *)
(* visibility, the topmost list, and the layered render messages with the  *)
(* renderer's clip stack.                                                  *)
(*                                                                         *)
(* Spec        the input state machine over a fixed scene of two windows   *)
(* SpecHeld    the same, fed by a mouse whose buttons go down and up       *)
(* SpecBuild   control creation, add_control, bring_to_front, visibility   *)
(* SpecLayout  construction contexts and the layout of what they log       *)
(* SpecWidget  the mouse messages of the controls and the enabled flag     *)
(* SpecTree    HIT_TEST, ADD_CHILD, REMOVE_CHILD(REN) and SELECT           *)
(* SpecParent  assignments to Control.parent                               *)
(* SpecRender  RENDER_BACKGROUND / RENDER / RENDER_FOREGROUND, the clips   *)
(* SpecRect    Rectangle.intersection and Rectangle.set_bounds             *)
(***************************************************************************)
EXTENDS Integers, Sequences, FiniteSets, TLC

(***************************************************************************)
(* Program constants                                                       *)
(***************************************************************************)
MB_NONE == 0
MB_LEFT == 1
MB_MIDDLE == 2
MB_RIGHT == 3

\* UIRuntime._drag_delta
DragDelta == 4

\* the literal of the click test in process_events
ClickLatency == 200

None == "None"

(***************************************************************************)
(* Bounds                                                                  *)
(***************************************************************************)
\* the values pg.time.get_ticks() returns: multiples of the click latency,
\* up to MaxClock of them
MaxClock == 1
Times == {i * ClickLatency : i \in 0..MaxClock}

(***************************************************************************)
(* The scene of Spec: two overlapping topmost Panels, a PushButton in each *)
(***************************************************************************)
Ctl == {"W1", "B1", "W2", "B2"}
Containers == {"W1", "W2"}
CtlOrNone == Ctl \cup {None}

Pt(x, y) == [x |-> x, y |-> y]
Rect(l, t, w, h) == [left |-> l, top |-> t, width |-> w, height |-> h]

\* Control._bounds of the scene's controls
SceneBounds ==
  [c \in Ctl |-> CASE c = "W1" -> Rect(10, 0, 20, 10)
                   [] c = "B1" -> Rect(0, 0, 8, 10)
                   [] c = "W2" -> Rect(12, 5, 30, 5)
                   [] c = "B2" -> Rect(14, 0, 8, 5)]
SceneParent == [c \in Ctl |-> CASE c = "B1" -> "W1" [] c = "B2" -> "W2" [] OTHER -> None]
SceneChildren == [c \in Ctl |-> CASE c = "W1" -> <<"B1">> [] c = "W2" -> <<"B2">> [] OTHER -> <<>>]

\* pointer positions the input source reports: over B1 alone; over B1 where
\* W2 overlaps it, lower than DragDelta; over B2 alone; over no control
Positions == {Pt(17, 2), Pt(17, 7), Pt(32, 7), Pt(50, 2)}
Origin == Pt(0, 0)

Buttons == {MB_LEFT, MB_MIDDLE, MB_RIGHT}
Payloads == {"pkgA", "pkgB"}

\* Behavior flags that matter to the runtime
BE_SELECTABLE == "SELECTABLE"
BE_MODAL == "MODAL"
BE_MODELESS == "MODELESS"

VARIABLES
  \* the control tree
  controls,       \* UIRuntime._controls: the topmost sequence, last = frontmost
  parent,         \* Control._parent
  bounds,         \* Control._bounds (relative to the parent)
  children,       \* ContainerControl._children
  visible,        \* Control._visible (the local flag)
  behavior,       \* Control._behavior
  selected,       \* ContainerControl._selected
  \* UIRuntime input state
  mbuttons,       \* _mbuttons
  pressed_now,    \* pressed_now of the running process_events call, as the set
                  \* of its true entries; see Anchor for the entries kept
  press_time,     \* _press_time[MB_LEFT]
  current_time,   \* current_time of the running process_events call
  drag_pos,       \* _drag_pos: [kind, left]
  drag_button, drag_accept, drag_receiver,
  captured, hovered, focused, active,
  \* environment
  mouse,          \* the pointer position
  err,            \* the exception that left process_events, "none" if none
  \* observation
  sent,           \* the messages the last step sent, in order
  query,          \* the last DRAG_ACCEPT query since the last drag started
  physical,       \* the buttons the user holds down, and those of them that
                  \* went down during the running process_events call
  started,        \* the control that got MOUSE_STARTDRAG with no MOUSE_STOPDRAG
                  \* and no primary button-down since, none if there is none
  \* construction
  created,        \* the controls constructed so far
  init_stack,     \* UIRuntime._init_stack
  cursor_stack,   \* UIRuntime._cursor_stack: each LayoutCursor the sequence of
                  \* the controls logged in it, with their layout directives
  call,           \* observation: the last construction call, and whether its
                  \* control was in the topmost sequence before it
  shown,          \* observation: the container hidden last and every control's
                  \* effective visibility before that; none once anything else
                  \* has changed
  \* RendererBase
  cliprect_stack, \* _cliprect_stack
  invalidated,    \* _invalidated
  layers,         \* the render_layers of each control's theme element
  \* the controls' own state
  enabled,        \* Control._enabled (the local flag)
  pressed_state,  \* ButtonBase._pressed_state
  toggle_state,   \* ButtonBase._toggle_state
  handlers,       \* the _on_<channel> attributes each control has
  invoked,        \* observation: the channels whose handlers the last
                  \* message invoked, in order
  returned,       \* observation: what the last message returned
  \* a Rectangle of the program
  rect,           \* its _left, _top, _width and _height
  result          \* observation: the Rectangle its last method returned

treeVars == <<controls, parent, bounds, children, visible, behavior, selected>>
inputVars == <<mbuttons, pressed_now, press_time, current_time, drag_pos, drag_button,
               drag_accept, drag_receiver, captured, hovered, focused, active, physical,
               started>>
envVars == <<mouse, err>>
obsVars == <<sent, query>>
buildVars == <<created, init_stack, cursor_stack, call, shown>>
renderVars == <<cliprect_stack, invalidated, layers>>
widgetVars == <<enabled, pressed_state, toggle_state, handlers, invoked, returned>>
rectVars == <<rect, result>>
vars == <<treeVars, inputVars, envVars, obsVars, buildVars, renderVars, widgetVars, rectVars>>

(***************************************************************************)
(* Geometry                                                                *)
(***************************************************************************)
Right(r) == r.left + r.width
Bottom(r) == r.top + r.height

\* Rectangle.contains(Point)
Contains(r, p) == r.left <= p.x /\ p.x < Right(r) /\ r.top <= p.y /\ p.y < Bottom(r)

Abs(n) == IF n < 0 THEN -n ELSE n
Max2(a, b) == IF a > b THEN a ELSE b
Min2(a, b) == IF a < b THEN a ELSE b

Spacing(l, t, r, b) == [left |-> l, top |-> t, right |-> r, bottom |-> b]

\* Control._margin and Control._padding: layout.margin and layout.padding of
\* the Panel and PushButton elements of the default skin
Margin(c) == IF c \in Containers THEN Spacing(2, 2, 2, 2) ELSE Spacing(1, 1, 1, 1)
Padding(c) == IF c \in Containers THEN Spacing(2, 2, 2, 2) ELSE Spacing(8, 8, 8, 8)

\* Control.position
RECURSIVE Position(_)
Position(c) ==
  IF parent[c] # None
  THEN LET pp == Position(parent[c])
       IN  Pt(pp.x + bounds[c].left, pp.y + bounds[c].top)
  ELSE Pt(bounds[c].left, bounds[c].top)

\* Control.get_bounds
GetBounds(c) ==
  LET p == Position(c) IN Rect(p.x, p.y, bounds[c].width, bounds[c].height)

\* Control.get_topmost
RECURSIVE GetTopmost(_)
GetTopmost(c) == IF parent[c] # None THEN GetTopmost(parent[c]) ELSE c

(***************************************************************************)
(* HIT_TEST                                                                *)
(***************************************************************************)
\* the first element of hits that is not None, dflt if there is none
LastHit_first(hits, dflt) ==
  IF \E i \in 1..Len(hits) : hits[i] # None
  THEN hits[CHOOSE i \in 1..Len(hits) : hits[i] # None /\ \A j \in 1..(i - 1) : hits[j] = None]
  ELSE dflt

\* the last element of hits that is not None, dflt if there is none
RECURSIVE LastHit(_, _)
LastHit(hits, dflt) ==
  IF hits = <<>> THEN dflt
  ELSE IF hits[Len(hits)] # None THEN hits[Len(hits)]
  ELSE LastHit(SubSeq(hits, 1, Len(hits) - 1), dflt)

\* Control.process_message(HIT_TEST) and ContainerControl.process_message(HIT_TEST)
RECURSIVE HitTest(_, _)
HitTest(c, p) ==
  IF Contains(GetBounds(c), p) /\ visible[c]
  THEN IF c \in Containers
       THEN LastHit([i \in 1..Len(children[c]) |-> HitTest(children[c][i], p)], c)
       ELSE c
  ELSE None

\* the hit-test loop of process_events over the topmost controls; start is
\* the value the loop variable holds before the loop
HitTestAll(p, start) ==
  LastHit([i \in 1..Len(controls) |-> HitTest(controls[i], p)], start)

(***************************************************************************)
(* Focus delegation                                                        *)
(***************************************************************************)
\* Control.selected_child and ContainerControl.selected_child. The
\* container's property also stores -1 in _selected when its index names no
\* child; the scenes keep _selected at -1 or at the index of a child, so the
\* store changes nothing
RECURSIVE SelectedChild(_)
SelectedChild(c) ==
  IF c \in Containers /\ Len(children[c]) > 0
     /\ 0 <= selected[c] /\ selected[c] < Len(children[c])
  THEN SelectedChild(children[c][selected[c] + 1])
  ELSE IF BE_SELECTABLE \in behavior[c] THEN c ELSE None

\* the descendants of c
RECURSIVE Descendants(_)
Descendants(c) ==
  LET kids == {children[c][i] : i \in 1..Len(children[c])}
  IN  kids \cup UNION {Descendants(k) : k \in kids}

(***************************************************************************)
(* Messages                                                                *)
(***************************************************************************)
Msg(m, to, arg) == [msg |-> m, to |-> to, arg |-> arg]
MsgIf(cond, m, to, arg) == IF cond THEN <<Msg(m, to, arg)>> ELSE <<>>
BoolArg(b) == IF b THEN "true" ELSE "false"
Count(s, m) == Cardinality({i \in 1..Len(s) : s[i].msg = m})
CountTo(s, m, to) == Cardinality({i \in 1..Len(s) : s[i].msg = m /\ s[i].to = to})

\* UIRuntime._is_mbutton
IsMButton(index) == index = MB_LEFT \/ index = MB_RIGHT \/ index = MB_RIGHT

\* F applied to the value of e, e evaluated once
Bind(e, F(_)) == CHOOSE r \in {F(x) : x \in {e}} : TRUE

InSeq(seq, c) == \E i \in 1..Len(seq) : seq[i] = c

\* list.remove: the first occurrence goes
RemoveFirst(seq, c) ==
  LET i == CHOOSE k \in 1..Len(seq) : seq[k] = c /\ \A j \in 1..(k - 1) : seq[j] # c
  IN  SubSeq(seq, 1, i - 1) \o SubSeq(seq, i + 1, Len(seq))

\* a bring_to_front that appends the control and leaves its old place
BringToFront_again(seq, c) == Append(seq, c)

\* UIRuntime.bring_to_front (control is in the sequence)
BringToFront(seq, c) == Append(RemoveFirst(seq, c), c)

\* an add_control that appends without looking
AddTopmost_unchecked(seq, c) == Append(seq, c)

\* UIRuntime.add_control
AddTopmost(seq, c) == IF InSeq(seq, c) THEN seq ELSE Append(seq, c)

\* an effective visibility that is the local flag
Visible_local(c) == visible[c]

\* Control.visible: the parent's effective visibility and the local flag,
\* the local flag of a parentless control of the topmost sequence, false
\* for any other parentless control
RECURSIVE Visible(_)
Visible(c) ==
  IF parent[c] # None
  THEN IF Visible(parent[c]) THEN visible[c] ELSE FALSE
  ELSE IF InSeq(controls, c) THEN visible[c] ELSE FALSE


(***************************************************************************)
(* process_events: MOUSEMOTION                                             *)
(***************************************************************************)
\* a hover change that enters the new control before it leaves the old one
MotionFree_enterfirst(hov) ==
  IF hov # hovered
  THEN [hovered |-> hov,
        sent |-> MsgIf(hov # None, "MOUSE_ENTER", hov, "none")
                 \o MsgIf(hovered # None, "MOUSE_LEAVE", hovered, "none")]
  ELSE [hovered |-> hovered,
        sent |-> MsgIf(hovered # None, "MOUSE_MOVE", hovered, "none")]

\* no control captured: enter/leave on a hover change, move otherwise
MotionFree(hov) ==
  IF hov # hovered
  THEN [hovered |-> hov,
        sent |-> MsgIf(hovered # None, "MOUSE_LEAVE", hovered, "none")
                 \o MsgIf(hov # None, "MOUSE_ENTER", hov, "none")]
  ELSE [hovered |-> hovered,
        sent |-> MsgIf(hovered # None, "MOUSE_MOVE", hovered, "none")]

\* the drag-start test: abs(event.pos[0] - start.x) > delta or
\* abs(event.pos[1] > delta); the second operand is the absolute value of a
\* comparison, true exactly when event.pos[1] > delta
ExceedsDrag(p, start) == Abs(p.x - start.x) > DragDelta \/ p.y > DragDelta

\* _drag_pos[button]. _mbuttons is only ever set for MB_LEFT, so the entries
\* of the other buttons in _drag_pos, _press_time, _release_time and
\* pressed_now are written and never read: the model keeps the MB_LEFT ones
Anchor(b) == IF b = MB_LEFT THEN drag_pos.left ELSE Origin

\* the buttons, in the order of the loop, that start a drag at p
DragStarters(p) ==
  SelectSeq(<<MB_LEFT, MB_MIDDLE, MB_RIGHT>>,
            LAMBDA b : mbuttons[b] = 1 /\ ExceedsDrag(p, Anchor(b)))

\* a control captured, no drag active: each pressed button beyond the
\* threshold becomes the drag button and sends MOUSE_STARTDRAG
MotionStartDrag(p) ==
  LET pressed == SelectSeq(<<MB_LEFT, MB_MIDDLE, MB_RIGHT>>, LAMBDA b : mbuttons[b] = 1)
      st == DragStarters(p)
  IN  IF pressed # <<>> /\ drag_pos.kind = "point"
      THEN [drag_button |-> drag_button, sent |-> <<>>, err |-> "AttributeError"]
      ELSE [drag_button |-> IF st = <<>> THEN drag_button ELSE st[Len(st)],
            sent |-> [i \in 1..Len(st) |-> Msg("MOUSE_STARTDRAG", captured, "none")],
            err |-> "none"]

\* a drag query that keeps the receiver of an earlier acceptance when the
\* answer is no
MotionDrag_stale(hov, r) ==
  IF hov # None /\ hov # captured
  THEN [drag_accept |-> r,
        drag_receiver |-> IF r THEN hov ELSE drag_receiver,
        query |-> [to |-> hov, res |-> BoolArg(r)],
        sent |-> <<Msg("MOUSE_DRAGMOVE", captured, "none"),
                   Msg("DRAG_ACCEPT", hov, BoolArg(r))>>]
  ELSE [drag_accept |-> drag_accept, drag_receiver |-> drag_receiver,
        query |-> query, sent |-> <<>>]

\* a drag query that keeps an earlier acceptance when the answer is no
MotionDrag_sticky(hov, r) ==
  IF hov # None /\ hov # captured
  THEN [drag_accept |-> drag_accept \/ r,
        drag_receiver |-> IF r THEN hov ELSE drag_receiver,
        query |-> [to |-> hov, res |-> BoolArg(r)],
        sent |-> <<Msg("MOUSE_DRAGMOVE", captured, "none"),
                   Msg("DRAG_ACCEPT", hov, BoolArg(r))>>]
  ELSE [drag_accept |-> drag_accept, drag_receiver |-> drag_receiver,
        query |-> query, sent |-> <<>>]

\* a drag active: the hovered control, if it is not the source, is asked
\* DRAG_ACCEPT; r is its answer
MotionDrag(hov, r) ==
  IF hov # None /\ hov # captured
  THEN [drag_accept |-> r,
        drag_receiver |-> IF r THEN hov ELSE None,
        query |-> [to |-> hov, res |-> BoolArg(r)],
        sent |-> <<Msg("MOUSE_DRAGMOVE", captured, "none"),
                   Msg("DRAG_ACCEPT", hov, BoolArg(r))>>]
  ELSE [drag_accept |-> drag_accept, drag_receiver |-> drag_receiver,
        query |-> query, sent |-> <<>>]

\* the answers DRAG_ACCEPT can give to a motion at p: it is only asked
\* during a drag, of a hovered control that is not the source
Answers(p) ==
  IF captured # None /\ drag_button # MB_NONE
     /\ HitTestAll(p, None) \notin {None, captured}
  THEN BOOLEAN ELSE {FALSE}

\* a motion that tracks the hover whether or not a control is captured
Motion_tracks(p, r) ==
  /\ err = "none"
  /\ LET free == MotionFree(HitTestAll(p, None))
     IN  /\ mouse' = p
         /\ hovered' = free.hovered
         /\ sent' = free.sent
  /\ UNCHANGED <<treeVars, mbuttons, pressed_now, press_time, current_time, drag_pos,
                 drag_button, drag_accept, drag_receiver, query, err, started,
                 captured, focused, active, buildVars, renderVars, widgetVars, rectVars>>

\* a MOUSEMOTION event at p; r is the answer DRAG_ACCEPT gives if asked
Motion(p, r) ==
  /\ err = "none"
  /\ LET hov == HitTestAll(p, None)
         free == MotionFree(hov)
         start == MotionStartDrag(p)
         drag == MotionDrag(hov, r)
     IN  /\ mouse' = p
         /\ IF captured = None
            THEN /\ hovered' = free.hovered
                 /\ sent' = free.sent
                 /\ UNCHANGED <<drag_button, drag_accept, drag_receiver, query, err,
                                started>>
            ELSE IF drag_button = MB_NONE
            THEN /\ drag_button' = start.drag_button
                 /\ sent' = start.sent
                 /\ err' = start.err
                 /\ started' = IF start.sent # <<>> THEN captured ELSE started
                 /\ query' = IF start.drag_button # MB_NONE
                             THEN [to |-> None, res |-> "none"] ELSE query
                 /\ UNCHANGED <<hovered, drag_accept, drag_receiver>>
            ELSE /\ drag_accept' = drag.drag_accept
                 /\ drag_receiver' = drag.drag_receiver
                 /\ query' = drag.query
                 /\ sent' = drag.sent
                 /\ UNCHANGED <<hovered, drag_button, err, started>>
  /\ UNCHANGED <<treeVars, mbuttons, pressed_now, press_time, current_time, drag_pos,
                 captured, focused, active, buildVars, renderVars, widgetVars, rectVars>>

(***************************************************************************)
(* process_events: MOUSEBUTTONUP                                           *)
(***************************************************************************)
\* a drop that delivers to the receiver before asking the source
DragStop_recvfirst(b, pkg) ==
  IF drag_button = b /\ captured # None
  THEN LET stop == <<Msg("MOUSE_STOPDRAG", captured, "none")>>
       IN  IF drag_accept /\ drag_receiver # None
           THEN [sent |-> stop \o <<Msg("DRAG_RECVDATA", drag_receiver, "pkgA"),
                                    Msg("DRAG_SENDDATA", captured, pkg)>>,
                 drag_accept |-> FALSE, drag_receiver |-> None,
                 drag_button |-> MB_NONE,
                 drag_pos |-> [kind |-> "point", left |-> Origin],
                 err |-> "none"]
           ELSE [sent |-> stop, drag_accept |-> drag_accept,
                 drag_receiver |-> drag_receiver, drag_button |-> drag_button,
                 drag_pos |-> drag_pos, err |-> "none"]
  ELSE [sent |-> <<>>, drag_accept |-> drag_accept, drag_receiver |-> drag_receiver,
        drag_button |-> drag_button, drag_pos |-> drag_pos, err |-> "none"]

\* the drag part of a button-up: MOUSE_STOPDRAG, then the drop when the
\* cached drag-accept is true; the drag state is reset inside that test
DragStop(b, pkg) ==
  IF drag_button = b /\ captured # None
  THEN LET stop == <<Msg("MOUSE_STOPDRAG", captured, "none")>>
       IN  IF drag_accept
           THEN IF drag_receiver = None
                THEN [sent |-> stop \o <<Msg("DRAG_SENDDATA", captured, pkg)>>,
                      drag_accept |-> drag_accept, drag_receiver |-> drag_receiver,
                      drag_button |-> drag_button, drag_pos |-> drag_pos,
                      err |-> "AttributeError"]
                ELSE [sent |-> stop \o <<Msg("DRAG_SENDDATA", captured, pkg),
                                         Msg("DRAG_RECVDATA", drag_receiver, pkg)>>,
                      drag_accept |-> FALSE, drag_receiver |-> None,
                      drag_button |-> MB_NONE,
                      drag_pos |-> [kind |-> "point", left |-> Origin],
                      err |-> "none"]
           ELSE [sent |-> stop, drag_accept |-> drag_accept,
                 drag_receiver |-> drag_receiver, drag_button |-> drag_button,
                 drag_pos |-> drag_pos, err |-> "none"]
  ELSE [sent |-> <<>>, drag_accept |-> drag_accept, drag_receiver |-> drag_receiver,
        drag_button |-> drag_button, drag_pos |-> drag_pos, err |-> "none"]

\* the click test of the primary button-up
ClickDue(pt, ct) == pt - ct < ClickLatency

\* MOUSE_CLICK to the hovered control
ClickPart == MsgIf(ClickDue(press_time, current_time) /\ hovered # None,
                   "MOUSE_CLICK", hovered, "none")

\* is_hovering: the captured control hit-tests itself at the release point
IsHovering(p) == captured # None /\ HitTest(captured, p) = captured

\* a release that tells the captured control and keeps it captured
ReleasePart_sticky(p) ==
  [sent |-> MsgIf(captured # None, "MOUSE_RELEASE", captured, BoolArg(IsHovering(p))),
   captured |-> captured]

\* a release that lets go of the capture only when the pointer is over the
\* captured control
ReleasePart_keeps(p) ==
  [sent |-> MsgIf(captured # None, "MOUSE_RELEASE", captured, BoolArg(IsHovering(p))),
   captured |-> IF IsHovering(p) THEN None ELSE captured]

\* MOUSE_RELEASE to the captured control, which is then released
ReleasePart(p) ==
  [sent |-> MsgIf(captured # None, "MOUSE_RELEASE", captured, BoolArg(IsHovering(p))),
   captured |-> None]

\* the hover update after the release, when the pointer is not over the
\* control that was captured; MOUSE_ENTER goes to self._hovered, which
\* still is the old hover, and fails when that is None
RehoverPart(p) ==
  LET h == HitTestAll(p, hovered)
  IN  IF IsHovering(p) \/ h = hovered
      THEN [sent |-> <<>>, hovered |-> hovered, err |-> "none"]
      ELSE IF hovered = None
      THEN [sent |-> <<>>, hovered |-> hovered, err |-> "AttributeError"]
      ELSE [sent |-> <<Msg("MOUSE_LEAVE", hovered, "none"),
                       Msg("MOUSE_ENTER", hovered, "none")>>,
            hovered |-> h, err |-> "none"]

\* the payloads DRAG_SENDDATA can return to a button-up: it is only asked
\* on a drop
Packages(b) ==
  IF drag_button = b /\ captured # None /\ drag_accept THEN Payloads ELSE {"pkgA"}

ButtonUp(b, pkg) ==
  /\ err = "none"
  /\ LET drag == DragStop(b, pkg)
         rel == ReleasePart(mouse)
         reh == RehoverPart(mouse)
     IN  /\ drag_accept' = drag.drag_accept
         /\ drag_receiver' = drag.drag_receiver
         /\ drag_button' = drag.drag_button
         /\ drag_pos' = drag.drag_pos
         /\ started' = IF drag.sent # <<>> THEN None ELSE started
         /\ IF drag.err # "none" \/ b # MB_LEFT
            THEN /\ sent' = drag.sent
                 /\ err' = drag.err
                 /\ UNCHANGED <<mbuttons, captured, hovered>>
            ELSE /\ mbuttons' = [mbuttons EXCEPT ![MB_LEFT] = 0]
                 /\ captured' = rel.captured
                 /\ hovered' = reh.hovered
                 /\ err' = reh.err
                 /\ sent' = drag.sent \o ClickPart \o rel.sent \o reh.sent
  /\ UNCHANGED <<treeVars, query, pressed_now, press_time, current_time, focused, active,
                 mouse, buildVars, renderVars, widgetVars, rectVars>>

(***************************************************************************)
(* process_events: MOUSEBUTTONDOWN                                         *)
(***************************************************************************)
\* an activation that makes the window under the pointer active when no
\* window is
Activation_first ==
  LET topmost == GetTopmost(hovered)
      modal == BE_MODAL \in behavior[active]
      modeless == BE_MODELESS \in behavior[active]
      switch == <<Msg("DEACTIVATED", active, "none"), Msg("ACTIVATED", topmost, "none")>>
  IN  IF hovered # None /\ active = None
      THEN [controls |-> BringToFront(controls, topmost), active |-> topmost,
            sent |-> <<Msg("ACTIVATED", topmost, "none")>>]
      ELSE IF hovered = None \/ active = topmost
      THEN [controls |-> controls, active |-> active, sent |-> <<>>]
      ELSE IF modal = modeless
      THEN [controls |-> IF modal THEN controls ELSE BringToFront(controls, topmost),
            active |-> topmost, sent |-> switch]
      ELSE [controls |-> IF modal THEN controls ELSE BringToFront(controls, topmost),
            active |-> active, sent |-> <<>>]

\* the activation matrix over the active window's MODAL and MODELESS flags
Activation ==
  LET topmost == GetTopmost(hovered)
      modal == BE_MODAL \in behavior[active]
      modeless == BE_MODELESS \in behavior[active]
      switch == <<Msg("DEACTIVATED", active, "none"), Msg("ACTIVATED", topmost, "none")>>
  IN  IF hovered = None \/ active = None \/ active = topmost
      THEN [controls |-> controls, active |-> active, sent |-> <<>>]
      ELSE IF ~modal /\ ~modeless
      THEN [controls |-> BringToFront(controls, topmost), active |-> topmost, sent |-> switch]
      ELSE IF modal /\ ~modeless
      THEN [controls |-> controls, active |-> active, sent |-> <<>>]
      ELSE IF ~modal /\ modeless
      THEN [controls |-> BringToFront(controls, topmost), active |-> active, sent |-> <<>>]
      ELSE [controls |-> controls, active |-> topmost, sent |-> switch]

\* a focus target taken from the window under the pointer
ToFocus_hovered(act) ==
  IF hovered # None THEN SelectedChild(GetTopmost(hovered))
  ELSE IF act # None THEN SelectedChild(act) ELSE None

\* the focus target asked of the window that is active after the activation
ToFocus(act) == IF act # None THEN SelectedChild(act) ELSE None

FocusPart(act) ==
  LET to_focus == ToFocus(act)
  IN  IF focused # to_focus
      THEN [focused |-> to_focus,
            sent |-> MsgIf(focused # None, "DEFOCUSED", focused, "none")
                     \o MsgIf(to_focus # None, "FOCUSED", to_focus, "none")]
      ELSE [focused |-> focused, sent |-> <<>>]

\* capture goes to the hovered control
CapturePart ==
  [captured |-> hovered,
   sent |-> MsgIf(hovered # None, "SELECTED", hovered, "none")
            \o MsgIf(hovered # None, "MOUSE_PRESS", hovered, "none")]

\* storing the anchor: _drag_pos[event.button] = Point(*event.pos); once a
\* drop has replaced the list by a Point, index 1 ends in int(Point), a
\* TypeError, and index 3 in the IndexError of Point.__setitem__
AnchorStore(b, p) ==
  IF drag_pos.kind = "point"
  THEN [drag_pos |-> drag_pos, err |-> IF b = MB_LEFT THEN "TypeError" ELSE "IndexError"]
  ELSE [drag_pos |-> IF b = MB_LEFT THEN [drag_pos EXCEPT !.left = p] ELSE drag_pos,
        err |-> "none"]

\* the values the clock can return now: it never runs backwards, and the
\* latest of the values read before is the latest of the two kept
ClockReads == {t \in Times : t >= current_time /\ t >= press_time}

\* t is the value of pg.time.get_ticks()
ButtonDown(b, t) ==
  /\ err = "none"
  /\ LET store == AnchorStore(b, mouse)
         act == Activation
         foc == FocusPart(act.active)
         cap == CapturePart
     IN  /\ IF IsMButton(b) /\ store.err # "none"
            THEN /\ err' = store.err
                 /\ sent' = <<>>
                 /\ UNCHANGED <<drag_pos, press_time, pressed_now, mbuttons, controls,
                                active, focused, captured, started>>
            ELSE /\ err' = "none"
                 /\ drag_pos' = IF IsMButton(b) THEN store.drag_pos ELSE drag_pos
                 /\ press_time' = IF b = MB_LEFT THEN t ELSE press_time
                 /\ pressed_now' = IF b = MB_LEFT THEN pressed_now \cup {b} ELSE pressed_now
                 /\ IF b = MB_LEFT
                    THEN /\ mbuttons' = [mbuttons EXCEPT ![MB_LEFT] = 1]
                         /\ controls' = act.controls
                         /\ active' = act.active
                         /\ focused' = foc.focused
                         /\ captured' = cap.captured
                         /\ started' = None
                         /\ sent' = act.sent \o foc.sent \o cap.sent
                    ELSE /\ sent' = <<>>
                         /\ UNCHANGED <<mbuttons, controls, active, focused, captured,
                                        started>>
  /\ UNCHANGED <<parent, bounds, children, visible, behavior, selected, current_time,
                 query, drag_button, drag_accept, drag_receiver, hovered, mouse,
                 buildVars, renderVars, widgetVars, rectVars>>

(***************************************************************************)
(* process_events: start and end of a call, and the clock                  *)
(***************************************************************************)
ButtonName(b) == CASE b = MB_LEFT -> "left" [] b = MB_MIDDLE -> "middle" [] OTHER -> "right"

\* the held-button notifications after the event loop
HeldPart ==
  LET held == SelectSeq(<<MB_LEFT, MB_MIDDLE, MB_RIGHT>>,
                        LAMBDA b : mbuttons[b] = 1 /\ b \notin pressed_now /\ hovered # None)
  IN  [i \in 1..Len(held) |-> Msg("MOUSE_DOWN", hovered, ButtonName(held[i]))]

\* one call of process_events returns, after its held-button notifications,
\* and the next call starts: it reads the clock, t, and clears pressed_now
NextTick(t) ==
  /\ err = "none"
  /\ sent' = HeldPart
  /\ pressed_now' = {}
  /\ current_time' = t
  /\ UNCHANGED <<treeVars, mbuttons, press_time, drag_pos, drag_button, drag_accept,
                 drag_receiver, captured, hovered, focused, active, mouse, err,
                 query, started, buildVars, renderVars, widgetVars, rectVars>>

(***************************************************************************)
(* Spec: the input state machine                                           *)
(***************************************************************************)
Sentinel == "sentinel"
NoCall == [op |-> "none", had |-> FALSE]

\* LayoutNext, the layout directives
LON_SAMELINE == "SAMELINE"
LON_BELOW == "BELOW"
LON_NEWLINE == "NEWLINE"
LON_CASCADE == "CASCADE"
LON_MANUAL == "MANUAL"
Directives == {LON_SAMELINE, LON_BELOW, LON_NEWLINE, LON_CASCADE, LON_MANUAL}

\* an entry of a LayoutCursor
Logged(c, layout) == [ctl |-> c, layout |-> layout]

\* the cursor the construction of the scene leaves: the two windows, placed
\* by hand
SceneCursor == <<Logged("W1", LON_MANUAL), Logged("W2", LON_MANUAL)>>
NoShown == [of |-> None, eff |-> [c \in Ctl |-> FALSE]]

\* RenderLayer flags, and the render_layers of Panel and PushButton in the
\* default skin
RL_BACKGROUND == "BACKGROUND"
RL_ABOVE_BACKGROUND == "ABOVE_BACKGROUND"
RL_BELOW_FOREGROUND == "BELOW_FOREGROUND"
RL_FOREGROUND == "FOREGROUND"
SkinLayers == {RL_BACKGROUND, RL_ABOVE_BACKGROUND, RL_FOREGROUND}

WindowFlags == {{}, {BE_MODAL}, {BE_MODELESS}, {BE_MODAL, BE_MODELESS}}

\* no button held down
NoPhysical == [held |-> {}, fresh |-> {}]

\* UIRuntime.__init__, the input state
RuntimeInit ==
  /\ mbuttons = [b \in Buttons |-> 0]
  /\ pressed_now = {}
  /\ press_time = 0
  /\ current_time = 0
  /\ drag_pos = [kind |-> "list", left |-> Origin]
  /\ drag_button = MB_NONE
  /\ drag_accept = FALSE
  /\ drag_receiver = None
  /\ captured = None /\ hovered = None /\ focused = None
  /\ err = "none"
  /\ sent = <<>>
  /\ query = [to |-> None, res |-> "none"]
  /\ physical = NoPhysical
  /\ started = None

\* RendererBase.__init__
\* the button states
BPS_NORMAL == "NORMAL"
BPS_HILIGHTED == "HILIGHTED"
BPS_PRESSED == "PRESSED"
BTS_OFF == "OFF"
BTS_ON == "ON"

\* Control.__init__ and ButtonBase.__init__: enabled, not pressed, off, and
\* no handler attached
WidgetInit ==
  /\ enabled = [c \in Ctl |-> TRUE]
  /\ pressed_state = [c \in Ctl \ Containers |-> BPS_NORMAL]
  /\ toggle_state = [c \in Ctl \ Containers |-> BTS_OFF]
  /\ handlers = [c \in Ctl |-> {}]
  /\ invoked = <<>>
  /\ returned = "none"
  /\ rect = Rect(0, 0, 0, 0)
  /\ result = Rect(0, 0, 0, 0)

RendererInit ==
  /\ cliprect_stack = <<>>
  /\ invalidated = <<>>

\* the state after construction and Application.start: every control
\* visible, nothing pressed, hovered, captured or focused; the window named
\* main_form, if any, active and in front
Init ==
  /\ \/ active = None /\ controls = <<"W1", "W2">>
     \/ active = "W1" /\ controls = <<"W2", "W1">>
  /\ parent = SceneParent
  /\ bounds = SceneBounds
  /\ children = SceneChildren
  /\ visible = [c \in Ctl |-> TRUE]
  /\ \E f1 \in (IF active = None THEN {{}} ELSE WindowFlags) :
       behavior = [c \in Ctl |-> {BE_SELECTABLE} \cup (IF c = "W1" THEN f1 ELSE {})]
  /\ selected = [c \in Containers |-> IF c = "W2" THEN 0 ELSE -1]
  /\ RuntimeInit
  /\ mouse \in Positions
  /\ created = Ctl
  /\ init_stack = <<Sentinel>>
  /\ cursor_stack = <<SceneCursor>>
  /\ call = NoCall
  /\ shown = NoShown
  /\ RendererInit
  /\ WidgetInit
  /\ layers = [c \in Ctl |-> SkinLayers]

\* the events of Spec come in any order, a second button-down without a
\* button-up between them included, and Spec does not record which buttons
\* the user holds
MouseMotion ==
  \E p \in Positions : \E r \in Answers(p) : Motion(p, r) /\ UNCHANGED physical
MouseButtonDown ==
  \E b \in Buttons : \E t \in (IF b = MB_LEFT THEN ClockReads ELSE {press_time}) :
    ButtonDown(b, t) /\ UNCHANGED physical
MouseButtonUp ==
  \E b \in Buttons : \E pkg \in Packages(b) : ButtonUp(b, pkg) /\ UNCHANGED physical
Tick == \E t \in ClockReads : NextTick(t) /\ UNCHANGED physical

Next == MouseMotion \/ MouseButtonDown \/ MouseButtonUp \/ Tick

Spec == Init /\ [][Next]_vars

(***************************************************************************)
(* SpecHeld: the input state machine fed by a mouse, whose buttons go down *)
(* and up in turn, over a scene with no active window                      *)
(***************************************************************************)
\* pointer positions: over B1 and over no control
HeldPositions == {Pt(17, 2), Pt(50, 2)}

InitHeld == Init /\ active = None /\ mouse \in HeldPositions

Glide ==
  \E p \in HeldPositions : \E r \in Answers(p) : Motion(p, r) /\ UNCHANGED physical
Press ==
  \E b \in Buttons \ physical.held :
    \E t \in (IF b = MB_LEFT THEN ClockReads ELSE {press_time}) :
      /\ ButtonDown(b, t)
      /\ physical' = [held |-> physical.held \cup {b}, fresh |-> physical.fresh \cup {b}]
Lift ==
  \E b \in physical.held : \E pkg \in Packages(b) :
    /\ ButtonUp(b, pkg)
    /\ physical' = [physical EXCEPT !.held = @ \ {b}]
EndTick ==
  \E t \in ClockReads : NextTick(t) /\ physical' = [physical EXCEPT !.fresh = {}]

NextHeld == Glide \/ Press \/ Lift \/ EndTick

SpecHeld == InitHeld /\ [][NextHeld]_vars

(***************************************************************************)
(* Properties of the input state machine                                   *)
(***************************************************************************)
\* the button-up steps of the primary button, and of the drag button
LeftUp == \E pkg \in Payloads : ButtonUp(MB_LEFT, pkg)
DragButtonUp == drag_button # MB_NONE /\ \E pkg \in Payloads : ButtonUp(drag_button, pkg)
AnyButtonUp == \E b \in Buttons : \E pkg \in Payloads : ButtonUp(b, pkg)

\* the positions in s of the messages m sent to a control
Places(s, m, to) == {i \in 1..Len(s) : s[i].msg = m /\ s[i].to = to}

\* C1: at most one control is captured at any time (the capture is one
\* reference, a control or none), and after every primary button-up that
\* process_events handles no control is captured
CaptureInvariant ==
  /\ [](captured \in CtlOrNone)
  /\ [][LeftUp => captured' = None]_vars

\* C1 witness: a primary button-up has just released a captured control
CaptureReleased ==
  /\ captured = None
  /\ mbuttons[MB_LEFT] = 0
  /\ Count(sent, "MOUSE_RELEASE") = 1

\* C2: a primary button-down on the hovered control X (which captures X),
\* then a primary button-up over X whose release time (current_time, the
\* value stored in _release_time) is less than the click latency after the
\* press time, with no drag in between, sends exactly one MOUSE_CLICK to X
\* and exactly one MOUSE_RELEASE, with is_hovering true, to X
ClickFires ==
  [][\A X \in Ctl :
       (/\ captured = X /\ hovered = X
        /\ mbuttons[MB_LEFT] = 1
        /\ drag_button = MB_NONE
        /\ HitTestAll(mouse, None) = X
        /\ current_time - press_time < ClickLatency
        /\ LeftUp)
       => /\ CountTo(sent', "MOUSE_CLICK", X) = 1
          /\ Count(sent', "MOUSE_CLICK") = 1
          /\ Count(sent', "MOUSE_RELEASE") = 1
          /\ \E i \in 1..Len(sent') : sent'[i] = Msg("MOUSE_RELEASE", X, "true")]_vars

\* C3: a button-up of the drag button during a drag whose most recent
\* DRAG_ACCEPT query, to the receiver R, returned true sends DRAG_SENDDATA
\* to the drag source and then DRAG_RECVDATA to R with the payload the
\* source returned, and clears the drag button, the cached drag-accept and
\* the drag receiver
DragCommit ==
  [][\A R \in Ctl :
       (/\ captured # None
        /\ query = [to |-> R, res |-> "true"]
        /\ DragButtonUp)
       => /\ Count(sent', "DRAG_SENDDATA") = 1
          /\ Count(sent', "DRAG_RECVDATA") = 1
          /\ \E i \in Places(sent', "DRAG_SENDDATA", captured) :
               \E j \in Places(sent', "DRAG_RECVDATA", R) :
                 i < j /\ sent'[j].arg = sent'[i].arg
          /\ drag_button' = MB_NONE
          /\ drag_accept' = FALSE
          /\ drag_receiver' = None]_vars

\* C3 witness: a drop has just been committed, with the second payload
DropCommitted ==
  /\ \E i \in 1..Len(sent) : sent[i].msg = "DRAG_RECVDATA" /\ sent[i].arg = "pkgB"
  /\ query.res = "true"
  /\ drag_button = MB_NONE

\* C4: after the button-up of the active drag button the drag button is
\* none, the cached drag-accept is false and the drag receiver is none,
\* whether or not the drop was accepted
DragStateCleared ==
  [][(captured # None /\ DragButtonUp)
       => /\ drag_button' = MB_NONE
          /\ drag_accept' = FALSE
          /\ drag_receiver' = None]_vars

\* C5: a button-up sends DRAG_SENDDATA and DRAG_RECVDATA only if the most
\* recent DRAG_ACCEPT query of the current drag returned true
DropOnlyIfAccepted ==
  [][AnyButtonUp
       => (Count(sent', "DRAG_SENDDATA") + Count(sent', "DRAG_RECVDATA") > 0
             => query.res = "true")]_vars

\* C5 witness: a drag whose most recent query was refused, after an earlier
\* one was accepted or not, has just ended without a drop
DropRefused ==
  /\ Count(sent, "MOUSE_STOPDRAG") = 1
  /\ query.res = "false"
  /\ Count(sent, "DRAG_SENDDATA") = 0

\* C6: the focused control is none, or the active topmost control, or a
\* descendant of the active topmost control
FocusWithinActive ==
  \/ focused = None
  \/ active # None /\ focused \in {active} \cup Descendants(active)

\* C6 witness: a child of the active window is focused
ChildFocused == active = "W2" /\ focused = "B2"

\* the button-down steps of the primary button
LeftDown == \E t \in Times : ButtonDown(MB_LEFT, t)

\* C14: on a primary button-down over a control whose topmost window W is
\* not the active window A, the activation changes (DEACTIVATED to A, then
\* ACTIVATED to W, and W active) exactly when the modal and the modeless
\* flag of A are both unset or both set; with exactly one of them set A
\* stays active and neither message is sent
ActivationMatrix ==
  [][\A A, W \in Containers :
       (/\ hovered # None /\ GetTopmost(hovered) = W
        /\ active = A /\ A # W
        /\ LeftDown)
       => IF (BE_MODAL \in behavior[A]) <=> (BE_MODELESS \in behavior[A])
          THEN /\ active' = W
               /\ Count(sent', "DEACTIVATED") = 1 /\ Count(sent', "ACTIVATED") = 1
               /\ \E i \in Places(sent', "DEACTIVATED", A) :
                    \E j \in Places(sent', "ACTIVATED", W) : i < j
          ELSE /\ active' = A
               /\ Count(sent', "DEACTIVATED") = 0 /\ Count(sent', "ACTIVATED") = 0]_vars

\* C15: on a primary button-down over a control of a window W that is not
\* the active window A, W becomes the last element of the topmost sequence,
\* the order of the other windows kept, if A is not modal; the topmost
\* sequence is unchanged if A is modal and not modeless
TopmostOrder ==
  [][\A A, W \in Containers :
       (/\ hovered # None /\ GetTopmost(hovered) = W
        /\ active = A /\ A # W
        /\ LeftDown)
       => /\ BE_MODAL \notin behavior[A]
             => /\ Len(controls') = Len(controls)
                /\ controls'[Len(controls')] = W
                /\ RemoveFirst(controls', W) = RemoveFirst(controls, W)
          /\ BE_MODAL \in behavior[A] /\ BE_MODELESS \notin behavior[A]
             => controls' = controls]_vars

\* C16: on a motion event with no control captured, a hit-tested control
\* that differs from the hover gets MOUSE_ENTER (if it is a control) after
\* the old hover got MOUSE_LEAVE (if it was a control), and becomes the
\* hover; a hit-tested control that is the hover gets exactly one MOUSE_MOVE
\* and nothing else is sent
HoverTracking ==
  [][\A p \in Positions : \A r \in BOOLEAN :
       (captured = None /\ Motion(p, r))
       => LET hit == HitTestAll(p, None)
          IN  IF hit # hovered
              THEN /\ hovered' = hit
                   /\ Count(sent', "MOUSE_MOVE") = 0
                   /\ Count(sent', "MOUSE_LEAVE") = (IF hovered # None THEN 1 ELSE 0)
                   /\ Count(sent', "MOUSE_ENTER") = (IF hit # None THEN 1 ELSE 0)
                   /\ hovered # None => sent'[1] = Msg("MOUSE_LEAVE", hovered, "none")
                   /\ hit # None => sent'[Len(sent')] = Msg("MOUSE_ENTER", hit, "none")
              ELSE /\ hovered' = hovered
                   /\ sent' = MsgIf(hovered # None, "MOUSE_MOVE", hovered, "none")]_vars

\* C16 witness: a motion has just taken the hover from one control to
\* another, the first left before the second was entered
HoverMoved ==
  /\ captured = None
  /\ Len(sent) = 2
  /\ sent[1].msg = "MOUSE_LEAVE" /\ sent[2].msg = "MOUSE_ENTER"
  /\ sent[1].to # sent[2].to
  /\ hovered = sent[2].to

\* C17: on a primary button-up that releases a captured control and changes
\* the hover from A to B, A (if a control) receives MOUSE_LEAVE, B (if a
\* control) receives MOUSE_ENTER, and B is the control under the pointer
ReleaseRehover ==
  [][\A A, B \in CtlOrNone :
       (/\ captured # None
        /\ LeftUp
        /\ hovered = A /\ hovered' = B /\ A # B)
       => /\ A # None => CountTo(sent', "MOUSE_LEAVE", A) = 1
          /\ B # None => CountTo(sent', "MOUSE_ENTER", B) = 1
          /\ B = HitTestAll(mouse, None)]_vars

\* C18: a primary button-up after a press on a control, which that press
\* captured, sends MOUSE_CLICK only if the time from the press to the
\* release (current_time, the value stored as release time) is below the
\* click latency and the pointer is over the pressed control
ClickOnlyQuickAndOver ==
  [][(captured # None /\ LeftUp /\ Count(sent', "MOUSE_CLICK") > 0)
       => /\ current_time - press_time < ClickLatency
          /\ IsHovering(mouse)]_vars

\* C19: while a control is captured and no drag is active, a motion event
\* makes a pressed button the drag button and sends MOUSE_STARTDRAG to the
\* captured control if and only if the larger of the absolute x and y
\* distances from the button's press anchor to the pointer exceeds the drag
\* threshold
DragThreshold ==
  [][\A p \in Positions : \A b \in Buttons :
       (/\ captured # None /\ drag_button = MB_NONE /\ mbuttons[b] = 1
        /\ Motion(p, FALSE))
       => ((drag_button' = b /\ CountTo(sent', "MOUSE_STARTDRAG", captured) = 1)
           <=> Max2(Abs(p.x - Anchor(b).x), Abs(p.y - Anchor(b).y)) > DragDelta)]_vars

\* C20: at the end of a tick the hover target receives exactly one
\* MOUSE_DOWN for every button, left, middle or right, that is held and did
\* not go down during that tick, and none for a button that went down
\* during the tick or is not held
HeldNotified ==
  [][\A b \in Buttons :
       EndTick
       => Cardinality({i \in 1..Len(sent') :
                         sent'[i] = Msg("MOUSE_DOWN", hovered, ButtonName(b))})
          = (IF b \in physical.held /\ b \notin physical.fresh /\ hovered # None
             THEN 1 ELSE 0)]_vars

\* C31: a control is captured only while the pressed flag of the primary
\* button is set, and a step that captures a control is a primary
\* button-down
CaptureOnlyWhilePressed ==
  /\ [](captured # None => mbuttons[MB_LEFT] = 1)
  /\ [][(captured' # None /\ captured' # captured) => LeftDown]_vars

\* C31 witness: a primary button-down has just captured the hovered control
CapturedByPress ==
  /\ captured # None /\ captured = hovered
  /\ mbuttons[MB_LEFT] = 1
  /\ CountTo(sent, "MOUSE_PRESS", captured) = 1

\* C32: the cached drag-accept is true exactly when a drag receiver is
\* recorded, and the recorded drag receiver is not the captured control
DragReceiverConsistent ==
  /\ drag_accept <=> drag_receiver # None
  /\ drag_receiver # None => drag_receiver # captured

\* C32 witness: the control under the pointer has just accepted the drag of
\* the captured control
DragAccepted ==
  /\ captured # None /\ drag_button # MB_NONE
  /\ drag_accept /\ drag_receiver \in Ctl
  /\ sent # <<>> /\ sent[Len(sent)] = Msg("DRAG_ACCEPT", drag_receiver, "true")

\* C33: a MOUSE_DRAGMOVE, a DRAG_ACCEPT query or a MOUSE_STOPDRAG is sent
\* only while the captured control has got MOUSE_STARTDRAG since the press
\* that captured it, with no MOUSE_STOPDRAG since
DragInsideStartedDrag ==
  [][(Count(sent', "MOUSE_DRAGMOVE") + Count(sent', "DRAG_ACCEPT")
        + Count(sent', "MOUSE_STOPDRAG") > 0)
       => (captured # None /\ started = captured)]_vars

\* the button-down steps of any button
AnyButtonDown == \E b \in Buttons : \E t \in Times : ButtonDown(b, t)

\* C34: the drag-anchor store always is the list of one anchor point per
\* button, after a committed drop too, and every button-down is processed
\* without error, a primary one recording the pointer position as its anchor
AnchorStoreIntact ==
  /\ [](drag_pos.kind = "list")
  /\ [][AnyButtonDown => err' = "none"]_vars
  /\ [][LeftDown => drag_pos'.left = mouse]_vars

\* how often a control occurs in a sequence
Occurs(seq, c) == Cardinality({i \in 1..Len(seq) : seq[i] = c})

\* C37: an input event leaves every control as often in the topmost
\* sequence as it was, so that it can only reorder the sequence, and the
\* active window is none or a member of the topmost sequence
TopmostOnlyReordered ==
  /\ [][\A c \in Ctl : Occurs(controls', c) = Occurs(controls, c)]_vars
  /\ [](active = None \/ InSeq(controls, active))

\* C37 witness: a primary button-down has just brought the window under the
\* pointer, which was behind the active one, to the front and activated it
ReorderedByPress ==
  /\ controls = <<"W1", "W2">>
  /\ active = "W2"
  /\ CountTo(sent, "ACTIVATED", "W2") = 1

\* C38: while a control is captured, a motion event leaves the hover as it
\* was and sends no MOUSE_ENTER, MOUSE_LEAVE or MOUSE_MOVE, whatever control
\* the pointer is over
CaptureFreezesHover ==
  [][\A p \in Positions : \A r \in BOOLEAN :
       (captured # None /\ Motion(p, r))
       => /\ hovered' = hovered
          /\ Count(sent', "MOUSE_ENTER") = 0
          /\ Count(sent', "MOUSE_LEAVE") = 0
          /\ Count(sent', "MOUSE_MOVE") = 0]_vars

\* C38 witness: a motion has just taken the pointer over another control
\* than the captured one, which still is the hover
HoverKeptInCapture ==
  /\ captured # None /\ hovered = captured
  /\ HitTestAll(mouse, None) \notin {None, captured}
  /\ CountTo(sent, "MOUSE_DRAGMOVE", captured) = 1

\* C39: with no window active, a primary button-down over a control leaves
\* the active window unset, sends no ACTIVATED and leaves no control
\* focused; no input event makes a window active when none is
NoActivationFromNone ==
  /\ [][(active = None /\ hovered # None /\ LeftDown)
          => /\ active' = None
             /\ Count(sent', "ACTIVATED") = 0
             /\ focused' = None]_vars
  /\ [][active = None => active' = None]_vars

\* C39 witness: with no window active, a primary button-down has just
\* captured and pressed the control under the pointer
PressedWithNoneActive ==
  /\ active = None /\ focused = None
  /\ captured # None
  /\ sent = <<Msg("SELECTED", captured, "none"), Msg("MOUSE_PRESS", captured, "none")>>

\* C40: with an active window that is modal and not modeless, a primary
\* button-down over a control X of another window captures X and sends it
\* SELECTED and then MOUSE_PRESS, the active window staying active
ModalStillCaptures ==
  [][\A X \in Ctl :
       (/\ active # None /\ hovered = X /\ GetTopmost(X) # active
        /\ BE_MODAL \in behavior[active] /\ BE_MODELESS \notin behavior[active]
        /\ LeftDown)
       => /\ captured' = X
          /\ active' = active
          /\ \E i \in Places(sent', "SELECTED", X) :
               \E j \in Places(sent', "MOUSE_PRESS", X) : i < j]_vars

(***************************************************************************)
(* Construction: Control.__init__, the construction contexts, add_control, *)
(* bring_to_front and the visible setter                                   *)
(***************************************************************************)
\* the deepest nesting of construction contexts
MaxContexts == 1

\* UIRuntime.context: the innermost open context, None at the sentinel
Context ==
  IF Len(init_stack) > 0 /\ init_stack[1] = Sentinel
     /\ init_stack[Len(init_stack)] # Sentinel
  THEN init_stack[Len(init_stack)] ELSE None

\* ADD_CHILD: a container appends a child it does not hold and answers
\* True; a plain control does not handle the message and answers None
AddChild(kids, c) == IF InSeq(kids, c) THEN kids ELSE Append(kids, c)

\* UIRuntime.get_cursor: the innermost cursor (the stack is never empty
\* while every exit follows an enter)
GetCursor == cursor_stack[Len(cursor_stack)]

\* LayoutCursor.__call__ on the innermost cursor
LogControl(c, layout) ==
  [cursor_stack EXCEPT ![Len(cursor_stack)] = Append(@, Logged(c, layout))]

\* layout.size of the Panel and PushButton elements of the default skin
SkinSize(c) == IF c \in Containers THEN [width |-> 120, height |-> 120]
               ELSE [width |-> 60, height |-> 20]

\* padding of the default metrics, which layout_topmost starts from
DefaultPadding == Spacing(2, 2, 2, 2)

\* what LON_CASCADE adds to the previous control's left and top
CascadeStep == 32

\* a placement in which NEWLINE starts at the row top
Place_norow(acc, child, layout, left, top) ==
  LET b == acc.bounds
      m == Margin(child)
      at == IF layout = LON_SAMELINE /\ acc.previous # None
            THEN [b[child] EXCEPT !.left = Right(b[acc.previous])
                                          + Margin(acc.previous).right + m.left,
                                  !.top = top + m.top]
            ELSE [b[child] EXCEPT !.left = left + m.left, !.top = top + m.top]
  IN  [bounds |-> [b EXCEPT ![child] = at],
       bottom |-> Max2(acc.bottom, Bottom(at) + m.bottom),
       previous |-> child]

\* one pass of the layout loop, for a logged control that is attached: the
\* control placed by its directive after the previous one, the row bottom
\* moved. acc holds the bounds, the row bottom and the previous control
Place(acc, child, layout, left, top) ==
  LET b == acc.bounds
      m == Margin(child)
      prev == acc.previous
      at == IF prev = None
            THEN [b[child] EXCEPT !.left = left + m.left, !.top = top + m.top]
            ELSE CASE layout = LON_SAMELINE ->
                        [b[child] EXCEPT !.left = Right(b[prev]) + Margin(prev).right + m.left,
                                         !.top = top + m.top]
                   [] layout = LON_BELOW ->
                        [b[child] EXCEPT !.left = b[prev].left - Margin(prev).left + m.left,
                                         !.top = Bottom(b[prev]) + Margin(prev).bottom + m.top]
                   [] layout = LON_CASCADE ->
                        [b[child] EXCEPT !.left = b[prev].left + CascadeStep,
                                         !.top = b[prev].top + CascadeStep]
                   [] layout = LON_NEWLINE ->
                        [b[child] EXCEPT !.left = left + m.left, !.top = acc.bottom + m.top]
                   [] OTHER -> b[child]
      reach == Bottom(at) + m.bottom
  IN  [bounds |-> [b EXCEPT ![child] = at],
       bottom |-> IF prev # None /\ layout = LON_NEWLINE THEN reach
                  ELSE IF prev # None /\ layout = LON_MANUAL THEN acc.bottom
                  ELSE Max2(acc.bottom, reach),
       previous |-> child]

\* the layout loop from the i-th entry of the cursor on; an entry whose
\* control is not among the attached ones is skipped
RECURSIVE LayoutFrom(_, _, _, _, _, _)
LayoutFrom(cursor, i, attached, left, top, acc) ==
  IF i > Len(cursor) THEN acc.bounds
  ELSE Bind(IF InSeq(attached, cursor[i].ctl)
            THEN Place(acc, cursor[i].ctl, cursor[i].layout, left, top)
            ELSE acc,
            LAMBDA a : LayoutFrom(cursor, i + 1, attached, left, top, a))

\* LAYOUT_CHILDREN: a container lays out its children from its padding; a
\* plain control does not handle the message
LayoutChildren(c, cursor) ==
  IF c \in Containers
  THEN LayoutFrom(cursor, 1, children[c], Padding(c).left, Padding(c).top,
                  [bounds |-> bounds, bottom |-> Padding(c).top, previous |-> None])
  ELSE bounds

\* Control.__init__ with parent p: "DEFAULT", None or a control, and the
\* layout directive. The control is logged in the innermost cursor and gets
\* the size of its skin element. Through the parent setter it becomes a
\* child when the target handles ADD_CHILD; with the default parent and no
\* context it becomes topmost
CreateControl(c, p, layout) ==
  /\ err = "none"
  /\ c \notin created
  /\ cursor_stack' = LogControl(c, layout)
  /\ bounds' = [bounds EXCEPT ![c] = Rect(0, 0, SkinSize(c).width, SkinSize(c).height)]
  /\ LET target == IF p = "DEFAULT" THEN Context ELSE p
         adopted == target # None /\ target \in Containers
     IN  /\ children' = IF adopted
                        THEN [children EXCEPT ![target] = AddChild(@, c)]
                        ELSE children
         /\ parent' = [parent EXCEPT ![c] = IF adopted THEN target ELSE None]
         /\ controls' = IF p = "DEFAULT" /\ target = None
                        THEN AddTopmost(controls, c) ELSE controls
         /\ sent' = MsgIf(target # None, "ADD_CHILD", target, c)
  /\ visible' = [visible EXCEPT ![c] = TRUE]
  /\ created' = created \cup {c}
  /\ call' = [op |-> "create", had |-> InSeq(controls, c)]
  /\ shown' = NoShown
  /\ UNCHANGED <<behavior, selected, inputVars, envVars, query, init_stack, renderVars, widgetVars, rectVars>>

\* Control.__enter__: UIRuntime.enter_context
EnterContext(c) ==
  /\ err = "none"
  /\ c \in created
  /\ Len(init_stack) <= MaxContexts
  /\ init_stack' = Append(init_stack, c)
  /\ cursor_stack' = Append(cursor_stack, <<>>)
  /\ call' = [op |-> "enter", had |-> InSeq(controls, c)]
  /\ sent' = <<>>
  /\ UNCHANGED <<treeVars, inputVars, envVars, query, created, shown, renderVars, widgetVars, rectVars>>

\* Control.__exit__: UIRuntime.exit_context, at the end of the body of a
\* with statement or when the body raised, the exception then going on to
\* the enclosing with statement. LAYOUT_CHILDREN goes to the context with
\* the innermost cursor (the global "this" is the context, and true); fails
\* says that the context's handler of the message raises, and then the
\* statements that pop the two stacks are not reached
ExitContext(raised, fails) ==
  /\ err = "none" \/ (err = "BodyError" /\ raised)
  /\ Context # None
  /\ call' = [op |-> "exit", had |-> InSeq(controls, Context)]
  /\ sent' = <<Msg("LAYOUT_CHILDREN", Context, GetCursor)>>
  /\ IF fails
     THEN /\ err' = "LayoutError"
          /\ UNCHANGED <<bounds, init_stack, cursor_stack>>
     ELSE /\ err' = IF raised THEN "BodyError" ELSE "none"
          /\ bounds' = LayoutChildren(Context, GetCursor)
          /\ init_stack' = SubSeq(init_stack, 1, Len(init_stack) - 1)
          /\ cursor_stack' = SubSeq(cursor_stack, 1, Len(cursor_stack) - 1)
  /\ UNCHANGED <<controls, parent, children, visible, behavior, selected, inputVars,
                 mouse, query, created, shown, renderVars, widgetVars, rectVars>>

\* UIRuntime.layout_topmost, which Application.start calls when the
\* construction is over: the topmost controls logged in the innermost
\* cursor are laid out from the default padding
LayoutTopmost ==
  /\ err = "none"
  /\ Context = None
  /\ bounds' = LayoutFrom(GetCursor, 1, controls, DefaultPadding.left, DefaultPadding.top,
                          [bounds |-> bounds, bottom |-> DefaultPadding.top,
                           previous |-> None])
  /\ call' = [op |-> "layout_topmost", had |-> FALSE]
  /\ sent' = <<>>
  /\ UNCHANGED <<controls, parent, children, visible, behavior, selected, inputVars,
                 envVars, query, created, init_stack, cursor_stack, shown, renderVars, widgetVars, rectVars>>

\* UIRuntime.add_control
AddControl(c) ==
  /\ err = "none"
  /\ c \in created
  /\ controls' = AddTopmost(controls, c)
  /\ call' = [op |-> "add_control", had |-> InSeq(controls, c)]
  /\ sent' = <<>>
  /\ shown' = NoShown
  /\ UNCHANGED <<parent, bounds, children, visible, behavior, selected, inputVars,
                 envVars, query, created, init_stack, cursor_stack, renderVars, widgetVars, rectVars>>

\* UIRuntime.bring_to_front; list.remove raises ValueError for a control
\* that is not topmost
BringToFrontCall(c) ==
  /\ c \in created
  /\ err = "none"
  /\ IF InSeq(controls, c)
     THEN controls' = BringToFront(controls, c) /\ err' = "none"
     ELSE controls' = controls /\ err' = "ValueError"
  /\ call' = [op |-> "bring_to_front", had |-> InSeq(controls, c)]
  /\ sent' = <<>>
  /\ UNCHANGED <<parent, bounds, children, visible, behavior, selected, inputVars,
                 mouse, query, created, init_stack, cursor_stack, shown, renderVars, widgetVars, rectVars>>

\* the visible setter: the local flag of one control
SetVisible(c, v) ==
  /\ err = "none"
  /\ c \in created
  /\ visible' = [visible EXCEPT ![c] = v]
  /\ shown' = IF c \in Containers /\ ~v
              THEN IF shown.of = c THEN shown
                   ELSE IF visible[c]
                   THEN [of |-> c, eff |-> [d \in Ctl |-> Visible(d)]]
                   ELSE NoShown
              ELSE NoShown
  /\ call' = [op |-> "visible", had |-> InSeq(controls, c)]
  /\ sent' = <<>>
  /\ UNCHANGED <<controls, parent, bounds, children, behavior, selected, inputVars,
                 envVars, query, created, init_stack, cursor_stack, renderVars, widgetVars, rectVars>>

\* the state after UIRuntime.__init__ and before any control exists
InitBuild ==
  /\ controls = <<>>
  /\ parent = [c \in Ctl |-> None]
  /\ bounds = [c \in Ctl |-> Rect(0, 0, 0, 0)]
  /\ children = [c \in Ctl |-> <<>>]
  /\ visible = [c \in Ctl |-> TRUE]
  /\ behavior = [c \in Ctl |-> {BE_SELECTABLE}]
  /\ selected = [c \in Containers |-> -1]
  /\ RuntimeInit
  /\ active = None
  /\ mouse = Origin
  /\ created = {}
  /\ init_stack = <<Sentinel>>
  /\ cursor_stack = <<<<>>>>
  /\ call = NoCall
  /\ shown = NoShown
  /\ RendererInit
  /\ WidgetInit
  /\ layers = [c \in Ctl |-> SkinLayers]

\* the controls the program constructs, in this order: two Panels and a
\* PushButton, each with the default parent or none and with the default
\* layout directive
BuildCtl == {"W1", "W2", "B1"}
BuildOrder == <<"W1", "W2", "B1">>

Create ==
  \E c \in BuildCtl : \E p \in {"DEFAULT", None} :
    /\ Cardinality(created) < Len(BuildOrder)
    /\ c = BuildOrder[Cardinality(created) + 1]
    /\ CreateControl(c, p, LON_NEWLINE)
Enter == \E c \in BuildCtl : EnterContext(c)
Exit == \E raised, fails \in BOOLEAN : ExitContext(raised, fails)
Add == \E c \in BuildCtl : AddControl(c)
Front == \E c \in BuildCtl : BringToFrontCall(c)
Show == \E c \in BuildCtl : \E v \in BOOLEAN : SetVisible(c, v)

NextBuild == Create \/ Enter \/ Exit \/ Add \/ Front \/ Show

SpecBuild == InitBuild /\ [][NextBuild]_vars

\* the construction of a layout: a Panel, a PushButton, a Panel and a
\* PushButton, in this order, with the default parent and any layout
\* directive
LayoutOrder == <<"W1", "B1", "W2", "B2">>

Declare ==
  \E c \in Ctl : \E layout \in Directives :
    /\ Cardinality(created) < Len(LayoutOrder)
    /\ c = LayoutOrder[Cardinality(created) + 1]
    /\ CreateControl(c, "DEFAULT", layout)
Open == \E c \in Ctl : EnterContext(c)

NextLayout == Declare \/ Open \/ Exit \/ LayoutTopmost

SpecLayout == InitBuild /\ [][NextLayout]_vars

(***************************************************************************)
(* Properties of the control tree                                          *)
(***************************************************************************)
\* C7: after any sequence of control creations, add_control calls and
\* bring_to_front calls the topmost sequence holds no control twice
NoDuplicateTopmost ==
  \A i, j \in 1..Len(controls) : controls[i] = controls[j] => i = j

\* C7 witness: add_control has just been called for a control that already
\* was topmost, among several
AddedAgain ==
  /\ call.op = "add_control" /\ call.had
  /\ Len(controls) > 2

\* C8: the effective visibility of a control with a parent is its local flag
\* and its parent's effective visibility, that of a topmost control its local
\* flag; hiding a container makes every descendant's effective visibility
\* false and changes no descendant's local flag, and showing it again gives
\* every descendant the effective visibility it had before
VisibilityPropagates ==
  /\ [](\A c \in created :
          /\ parent[c] # None => (Visible(c) <=> visible[c] /\ Visible(parent[c]))
          /\ parent[c] = None /\ InSeq(controls, c) => (Visible(c) <=> visible[c]))
  /\ [][\A c \in Containers :
          SetVisible(c, FALSE)
          => \A d \in Descendants(c) : ~Visible(d)' /\ visible'[d] = visible[d]]_vars
  /\ [][\A c \in Containers :
          (shown.of = c /\ SetVisible(c, TRUE))
          => \A d \in Descendants(c) :
               (Visible(d)' <=> shown.eff[d]) /\ visible'[d] = visible[d]]_vars

\* C8 witness: a container two levels above a control is hidden, and the
\* control, which was effectively visible, no longer is, its local flag set
HiddenByAncestor ==
  /\ shown.of # None
  /\ \E d \in created :
       /\ parent[d] # None /\ parent[parent[d]] = shown.of
       /\ shown.eff[d] /\ visible[d] /\ ~Visible(d)

(***************************************************************************)
(* Properties of the construction contexts and the layout                  *)
(***************************************************************************)
\* the exits of a construction context
AnyExit == \E raised, fails \in BOOLEAN : ExitContext(raised, fails)

\* C11: leaving a construction context sends LAYOUT_CHILDREN with the
\* context's cursor to the context's control and pops the context stack and
\* the cursor stack, which undoes what the matching enter pushed, also when
\* the body raised or the handling of the layout message raises
ExitRestoresStacks ==
  [][AnyExit
       => /\ sent' = <<Msg("LAYOUT_CHILDREN", Context, GetCursor)>>
          /\ init_stack' = SubSeq(init_stack, 1, Len(init_stack) - 1)
          /\ cursor_stack' = SubSeq(cursor_stack, 1, Len(cursor_stack) - 1)]_vars

\* the entries of a cursor whose control is attached, in the order logged
AttachedEntries(cursor, attached) == SelectSeq(cursor, LAMBDA e : InSeq(attached, e.ctl))

\* three controls logged with NEWLINE, SAMELINE, NEWLINE
TwoRowsLogged(e) ==
  /\ Len(e) = 3
  /\ e[1].layout = LON_NEWLINE /\ e[2].layout = LON_SAMELINE /\ e[3].layout = LON_NEWLINE

\* the bounds b hold the three controls in two rows: the second at or beyond
\* the right edge of the first and as far below the row top as its margin,
\* like the first; the third at the left edge, its margin apart, its top at
\* or below the bottoms, margins added, of the first two
TwoRows(e, b, left) ==
  LET c1 == e[1].ctl
      c2 == e[2].ctl
      c3 == e[3].ctl
  IN  /\ b[c2].left >= Right(b[c1])
      /\ b[c2].top - Margin(c2).top = b[c1].top - Margin(c1).top
      /\ b[c3].left = left + Margin(c3).left
      /\ b[c3].top >= Max2(Bottom(b[c1]) + Margin(c1).bottom,
                           Bottom(b[c2]) + Margin(c2).bottom)

OnNewRow(e, b) ==
  \A i \in 2..(Len(e) - 1) :
    (e[i].layout = LON_NEWLINE /\ e[i + 1].layout = LON_SAMELINE)
    => b[e[i + 1].ctl].top - Margin(e[i + 1].ctl).top
         = b[e[i].ctl].top - Margin(e[i].ctl).top

\* C30: LAYOUT_CHILDREN and layout_topmost place a control logged with
\* SAMELINE after a NEWLINE entry, which is not the first entry, on the row
\* that entry started, its top at the new row's top plus its own top margin
NewlineMovesRow ==
  /\ [][(/\ Context \in Containers
         /\ \E raised \in BOOLEAN : ExitContext(raised, FALSE))
        => OnNewRow(AttachedEntries(GetCursor, children[Context]), bounds')]_vars
  /\ [][LayoutTopmost => OnNewRow(AttachedEntries(GetCursor, controls), bounds')]_vars

\* C13: a control created with the default parent while a construction
\* context is open becomes a child of the innermost open control and is not
\* added to the topmost sequence; created with no context open it is added
\* to the topmost sequence and has no parent; this whatever the type of the
\* open control
AttachedOnce ==
  [][\A c \in Ctl : \A layout \in Directives :
       CreateControl(c, "DEFAULT", layout)
       => IF Context # None
          THEN /\ parent'[c] = Context
               /\ InSeq(children'[Context], c)
               /\ ~InSeq(controls', c)
          ELSE /\ InSeq(controls', c)
               /\ parent'[c] = None]_vars

(***************************************************************************)
(* The controls' own messages: the mouse messages of Control, ButtonBase,  *)
(* PushButton and CheckBox, and the enabled flag. process_events records   *)
(* the messages it sends in sent; what a control does with one is here     *)
(***************************************************************************)
\* the classes of the form's controls
ClassOf(c) ==
  CASE c \in Containers -> "Panel" [] c = "B2" -> "CheckBox" [] OTHER -> "PushButton"

MouseMessages ==
  {"MOUSE_ENTER", "MOUSE_PRESS", "MOUSE_DOWN", "MOUSE_RELEASE", "MOUSE_LEAVE"}

\* EventBase.get_handler_name without its "_on_" prefix, for the event class
\* of each mouse message
Channel(m) ==
  CASE m = "MOUSE_ENTER" -> "mouseenter"
    [] m = "MOUSE_PRESS" -> "mousepress"
    [] m = "MOUSE_DOWN" -> "mousedown"
    [] m = "MOUSE_RELEASE" -> "mouserelease"
    [] m = "MOUSE_LEAVE" -> "mouseleave"

MouseChannels == {Channel(m) : m \in MouseMessages}
ButtonChannels == {"pressed", "checked", "unchecked", "checkchanged"}

\* Control.enabled: the parent's effective flag and the local flag, the
\* local flag of a parentless control of the topmost sequence, false for
\* any other parentless control
RECURSIVE Enabled(_)
Enabled(c) ==
  IF parent[c] # None
  THEN IF Enabled(parent[c]) THEN enabled[c] ELSE FALSE
  ELSE IF InSeq(controls, c) THEN enabled[c] ELSE FALSE

\* what a message has done so far
WidgetState ==
  [pressed |-> pressed_state, toggle |-> toggle_state, invoked |-> <<>>,
   returned |-> "none", err |-> "none"]

\* a call of the _on_<channel> attribute of c, which exists once a handler
\* was attached to that event: AttributeError without it
Invoke(c, channel, st) ==
  IF st.err # "none" THEN st
  ELSE IF channel \in handlers[c] THEN [st EXCEPT !.invoked = Append(@, channel)]
  ELSE [st EXCEPT !.err = "AttributeError"]

\* Control.process_message for a mouse message: the attribute is looked up
\* with a default that does nothing
ControlMessage(c, m, st) ==
  [(IF Channel(m) \in handlers[c] THEN Invoke(c, Channel(m), st) ELSE st)
     EXCEPT !.returned = "true"]

\* the pressed state ButtonBase.process_message stores for a message
Pressed(old, m, hov) ==
  CASE m = "MOUSE_ENTER" -> BPS_HILIGHTED
    [] m = "MOUSE_PRESS" -> BPS_PRESSED
    [] m = "MOUSE_RELEASE" -> IF hov THEN BPS_HILIGHTED ELSE BPS_NORMAL
    [] m = "MOUSE_LEAVE" -> BPS_NORMAL
    [] OTHER -> old

\* a ButtonBase that does not ask whether it is enabled
ButtonBaseMessage_always(c, m, hov, st) ==
  ControlMessage(c, m, [st EXCEPT !.pressed[c] = Pressed(@, m, hov)])

\* ButtonBase.process_message
ButtonBaseMessage(c, m, hov, st) ==
  ControlMessage(c, m, IF Enabled(c)
                       THEN [st EXCEPT !.pressed[c] = Pressed(@, m, hov)]
                       ELSE st)

\* PushButton.process_message: a release over the enabled button calls
\* _on_pressed, then the message goes on to ButtonBase
PushButtonMessage(c, m, hov, st) ==
  IF m = "MOUSE_RELEASE" /\ Enabled(c)
  THEN IF hov
       THEN Bind(Invoke(c, "pressed", [st EXCEPT !.pressed[c] = BPS_HILIGHTED]),
                 LAMBDA s1 : IF s1.err # "none" THEN s1
                             ELSE ButtonBaseMessage(c, m, hov, s1))
       ELSE ButtonBaseMessage(c, m, hov, [st EXCEPT !.pressed[c] = BPS_NORMAL])
  ELSE ButtonBaseMessage(c, m, hov, st)

\* CheckBox.process_message: a release is handled here and goes no further
CheckBoxMessage(c, m, hov, st) ==
  IF m = "MOUSE_RELEASE"
  THEN IF ~Enabled(c) THEN st
       ELSE IF ~hov THEN [st EXCEPT !.pressed[c] = BPS_NORMAL]
       ELSE IF st.toggle[c] = BTS_ON
       THEN Invoke(c, "checkchanged",
              Invoke(c, "unchecked",
                [st EXCEPT !.pressed[c] = BPS_HILIGHTED, !.toggle[c] = BTS_OFF]))
       ELSE Invoke(c, "checkchanged",
              Invoke(c, "checked",
                [st EXCEPT !.pressed[c] = BPS_HILIGHTED, !.toggle[c] = BTS_ON]))
  ELSE ButtonBaseMessage(c, m, hov, st)

\* process_message of the control's class
MouseMessage(c, m, hov, st) ==
  CASE ClassOf(c) = "PushButton" -> PushButtonMessage(c, m, hov, st)
    [] ClassOf(c) = "CheckBox" -> CheckBoxMessage(c, m, hov, st)
    [] OTHER -> ControlMessage(c, m, st)

\* one mouse message sent to a control; hov is the parameter of
\* MOUSE_RELEASE
Deliver(c, m, hov) ==
  /\ err = "none"
  /\ sent' = <<Msg(m, c, IF m = "MOUSE_RELEASE" THEN BoolArg(hov) ELSE "none")>>
  /\ \E st \in {MouseMessage(c, m, hov, WidgetState)} :
       /\ pressed_state' = st.pressed
       /\ toggle_state' = st.toggle
       /\ invoked' = st.invoked
       /\ returned' = st.returned
       /\ err' = st.err
  /\ UNCHANGED <<treeVars, inputVars, mouse, query, buildVars, renderVars, enabled,
                 handlers, rectVars>>

\* the enabled setter: the local flag of one control
SetEnabled(c, v) ==
  /\ err = "none"
  /\ enabled' = [enabled EXCEPT ![c] = v]
  /\ sent' = <<>>
  /\ invoked' = <<>>
  /\ returned' = "none"
  /\ UNCHANGED <<treeVars, inputVars, envVars, query, buildVars, renderVars,
                 pressed_state, toggle_state, handlers, rectVars>>

\* the handlers a program attaches: none, those of the mouse events, those
\* of every event
HandlerSets == {{}, MouseChannels, MouseChannels \cup ButtonChannels}

\* the scene of Spec, with handlers attached
InitWidget ==
  /\ controls = <<"W1", "W2">>
  /\ parent = SceneParent
  /\ bounds = SceneBounds
  /\ children = SceneChildren
  /\ visible = [c \in Ctl |-> TRUE]
  /\ behavior = [c \in Ctl |-> {BE_SELECTABLE}]
  /\ selected = [c \in Containers |-> -1]
  /\ RuntimeInit
  /\ active = None
  /\ mouse = Origin
  /\ created = Ctl
  /\ init_stack = <<Sentinel>>
  /\ cursor_stack = <<SceneCursor>>
  /\ call = NoCall
  /\ shown = NoShown
  /\ RendererInit
  /\ layers = [c \in Ctl |-> SkinLayers]
  /\ enabled = [c \in Ctl |-> TRUE]
  /\ pressed_state = [c \in Ctl \ Containers |-> BPS_NORMAL]
  /\ toggle_state = [c \in Ctl \ Containers |-> BTS_OFF]
  /\ \E h \in HandlerSets : handlers = [c \in Ctl |-> h]
  /\ invoked = <<>>
  /\ returned = "none"
  /\ rect = Rect(0, 0, 0, 0)
  /\ result = Rect(0, 0, 0, 0)

MouseMessageTo ==
  \E c \in Ctl : \E m \in MouseMessages :
    \E hov \in (IF m = "MOUSE_RELEASE" THEN BOOLEAN ELSE {FALSE}) : Deliver(c, m, hov)
Enable == \E c \in {"W1", "B1", "B2"} : \E v \in BOOLEAN : SetEnabled(c, v)

NextWidget == MouseMessageTo \/ Enable

SpecWidget == InitWidget /\ [][NextWidget]_vars

(***************************************************************************)
(* Properties of the controls' own messages                                *)
(***************************************************************************)
\* C21: a mouse message to a button whose effective enabled flag is true
\* leaves it HILIGHTED after MOUSE_ENTER, PRESSED after MOUSE_PRESS,
\* HILIGHTED after a MOUSE_RELEASE with the hovering flag and NORMAL after
\* one without, NORMAL after MOUSE_LEAVE, and as it was after any other;
\* with the flag false the pressed state stays as it was; no other button's
\* pressed state changes
PressedStateMachine ==
  [][\A c \in Ctl \ Containers : \A m \in MouseMessages : \A hov \in BOOLEAN :
       Deliver(c, m, hov)
       => /\ pressed_state'[c] =
               IF ~Enabled(c) THEN pressed_state[c]
               ELSE CASE m = "MOUSE_ENTER" -> BPS_HILIGHTED
                      [] m = "MOUSE_PRESS" -> BPS_PRESSED
                      [] m = "MOUSE_RELEASE" /\ hov -> BPS_HILIGHTED
                      [] m = "MOUSE_RELEASE" /\ ~hov -> BPS_NORMAL
                      [] m = "MOUSE_LEAVE" -> BPS_NORMAL
                      [] OTHER -> pressed_state[c]
          /\ \A d \in Ctl \ (Containers \cup {c}) :
               pressed_state'[d] = pressed_state[d]]_vars

\* a pressed button of a disabled window has received MOUSE_LEAVE
PressedWhileDisabled ==
  /\ sent = <<Msg("MOUSE_LEAVE", "B1", "none")>>
  /\ pressed_state["B1"] = BPS_PRESSED
  /\ enabled["B1"] /\ ~enabled["W1"]

\* C22: a mouse message invokes handlers only of a control whose effective
\* enabled flag is true
HandlersOnlyIfEnabled ==
  [][\A c \in Ctl : \A m \in MouseMessages : \A hov \in BOOLEAN :
       (Deliver(c, m, hov) /\ invoked' # <<>>) => Enabled(c)]_vars

(***************************************************************************)
(* SpecTree: HIT_TEST, ADD_CHILD, REMOVE_CHILD and SELECT sent to the      *)
(* controls of a form with a nested Panel                                  *)
(***************************************************************************)
\* the form: the topmost Panel W1 holds the button B1 and the Panel W2,
\* which overlaps B1 and holds the button B2
FormBounds ==
  [c \in Ctl |-> CASE c = "W1" -> Rect(10, 0, 30, 20)
                   [] c = "B1" -> Rect(0, 0, 12, 10)
                   [] c = "W2" -> Rect(8, 0, 20, 10)
                   [] c = "B2" -> Rect(0, 0, 8, 10)]
FormParent == [c \in Ctl |-> CASE c = "W1" -> None [] c = "B2" -> "W2" [] OTHER -> "W1"]
FormChildren == [c \in Ctl |-> CASE c = "W1" -> <<"B1", "W2">> [] c = "W2" -> <<"B2">>
                                 [] OTHER -> <<>>]

\* the positions asked: over B1, W2 and B2; over W1 alone; over no control
FormPoints == {Pt(20, 2), Pt(12, 15), Pt(45, 2)}

\* list.index
IndexOf(seq, c) ==
  (CHOOSE k \in 1..Len(seq) : seq[k] = c /\ \A j \in 1..(k - 1) : seq[j] # c) - 1

\* HIT_TEST sent to a control with the position p, which the observation
\* keeps as the pointer's; the control of the returned pair is kept
HitTestMsg(c, p) ==
  /\ err = "none"
  /\ mouse' = p
  /\ sent' = <<Msg("HIT_TEST", c, "none")>>
  /\ returned' = HitTest(c, p)
  /\ invoked' = <<>>
  /\ UNCHANGED <<treeVars, inputVars, err, query, buildVars, renderVars, enabled,
                 pressed_state, toggle_state, handlers, rectVars>>

\* ADD_CHILD sent to a container
AddChildMsg(w, k) ==
  /\ err = "none"
  /\ children' = [children EXCEPT ![w] = AddChild(@, k)]
  /\ sent' = <<Msg("ADD_CHILD", w, k)>>
  /\ returned' = "true"
  /\ invoked' = <<>>
  /\ UNCHANGED <<controls, parent, bounds, visible, behavior, selected, inputVars,
                 envVars, query, buildVars, renderVars, enabled, pressed_state,
                 toggle_state, handlers, rectVars>>

\* a REMOVE_CHILD that leaves the selection index alone
RemoveChildMsg_keeps(w, k) ==
  /\ err = "none"
  /\ children' = [children EXCEPT ![w] = IF InSeq(@, k) THEN RemoveFirst(@, k) ELSE @]
  /\ sent' = <<Msg("REMOVE_CHILD", w, k)>>
  /\ returned' = "none"
  /\ invoked' = <<>>
  /\ UNCHANGED <<controls, parent, bounds, visible, behavior, selected, inputVars,
                 envVars, query, buildVars, renderVars, enabled, pressed_state,
                 toggle_state, handlers, rectVars>>

\* REMOVE_CHILD sent to a container: a selection at or after the child
\* moves down by one
RemoveChildMsg(w, k) ==
  /\ err = "none"
  /\ IF InSeq(children[w], k)
     THEN /\ selected' = IF selected[w] >= 0 /\ IndexOf(children[w], k) <= selected[w]
                         THEN [selected EXCEPT ![w] = @ - 1]
                         ELSE selected
          /\ children' = [children EXCEPT ![w] = RemoveFirst(@, k)]
     ELSE UNCHANGED <<children, selected>>
  /\ sent' = <<Msg("REMOVE_CHILD", w, k)>>
  /\ returned' = "none"
  /\ invoked' = <<>>
  /\ UNCHANGED <<controls, parent, bounds, visible, behavior, inputVars, envVars, query,
                 buildVars, renderVars, enabled, pressed_state, toggle_state, handlers, rectVars>>

\* REMOVE_CHILDREN sent to a container
RemoveChildrenMsg(w) ==
  /\ err = "none"
  /\ children' = [children EXCEPT ![w] = <<>>]
  /\ selected' = [selected EXCEPT ![w] = -1]
  /\ sent' = <<Msg("REMOVE_CHILDREN", w, "none")>>
  /\ returned' = "none"
  /\ invoked' = <<>>
  /\ UNCHANGED <<controls, parent, bounds, visible, behavior, inputVars, envVars, query,
                 buildVars, renderVars, enabled, pressed_state, toggle_state, handlers,
                 rectVars>>

\* SELECT sent to a container
SelectMsg(w, k) ==
  /\ err = "none"
  /\ selected' = IF InSeq(children[w], k)
                 THEN [selected EXCEPT ![w] = IndexOf(children[w], k)]
                 ELSE selected
  /\ sent' = <<Msg("SELECT", w, k)>>
  /\ returned' = BoolArg(InSeq(children[w], k))
  /\ invoked' = <<>>
  /\ UNCHANGED <<controls, parent, bounds, children, visible, behavior, inputVars,
                 envVars, query, buildVars, renderVars, enabled, pressed_state,
                 toggle_state, handlers, rectVars>>

InitTree ==
  /\ controls = <<"W1">>
  /\ parent = FormParent
  /\ bounds = FormBounds
  /\ children = FormChildren
  /\ visible = [c \in Ctl |-> TRUE]
  /\ behavior = [c \in Ctl |-> {BE_SELECTABLE}]
  /\ selected = [c \in Containers |-> -1]
  /\ RuntimeInit
  /\ active = None
  /\ mouse = Origin
  /\ created = Ctl
  /\ init_stack = <<Sentinel>>
  /\ cursor_stack = <<SceneCursor>>
  /\ call = NoCall
  /\ shown = NoShown
  /\ RendererInit
  /\ WidgetInit
  /\ layers = [c \in Ctl |-> SkinLayers]

\* the children sent: the controls of the topmost Panel to it, either
\* button to the nested one
Adoptions == {<<"W1", "B1">>, <<"W1", "W2">>, <<"W2", "B2">>, <<"W2", "B1">>}

Hit == \E c \in Ctl : \E p \in FormPoints : HitTestMsg(c, p)
Adopt == \E a \in Adoptions : AddChildMsg(a[1], a[2])
Disown == \E a \in Adoptions : RemoveChildMsg(a[1], a[2])
Clear == \E w \in Containers : RemoveChildrenMsg(w)
Select == \E k \in {"B1", "W2", "B2"} : SelectMsg("W1", k)
Hide == \E c \in Containers : \E v \in BOOLEAN : SetVisible(c, v)

NextTree == Hit \/ Adopt \/ Disown \/ Clear \/ Select \/ Hide

SpecTree == InitTree /\ [][NextTree]_vars

(***************************************************************************)
(* SpecParent: the parent setter applied to the controls of the form       *)
(***************************************************************************)
\* REMOVE_CHILD with the control c itself, handled by c: a container takes c
\* out of its own children, any other control ignores the message
SelfRemoved(c) ==
  IF c \in Containers /\ InSeq(children[c], c)
  THEN [children |-> [children EXCEPT ![c] = RemoveFirst(@, c)],
        selected |-> IF selected[c] >= 0 /\ IndexOf(children[c], c) <= selected[c]
                     THEN [selected EXCEPT ![c] = @ - 1] ELSE selected]
  ELSE [children |-> children, selected |-> selected]

\* the parent setter, control.parent = v: nothing when v is the parent;
\* else REMOVE_CHILD, sent to the control itself when it has a parent, then
\* ADD_CHILD sent to v, whose answer decides whether v becomes the parent;
\* a control that is no container does not handle ADD_CHILD and answers None
SetParent(c, v) ==
  /\ err = "none"
  /\ IF parent[c] = v
     THEN /\ sent' = <<>>
          /\ UNCHANGED <<parent, children, selected>>
     ELSE LET had == parent[c] # None
              rem == IF had THEN SelfRemoved(c)
                     ELSE [children |-> children, selected |-> selected]
              adopts == v # None /\ v \in Containers
          IN  /\ children' = IF adopts
                             THEN [rem.children EXCEPT ![v] = AddChild(@, c)]
                             ELSE rem.children
              /\ selected' = rem.selected
              /\ parent' = IF v = None \/ adopts THEN [parent EXCEPT ![c] = v]
                           ELSE parent
              /\ sent' = MsgIf(had, "REMOVE_CHILD", c, c)
                         \o MsgIf(v # None, "ADD_CHILD", v, c)
  /\ returned' = "none"
  /\ invoked' = <<>>
  /\ UNCHANGED <<controls, bounds, visible, behavior, inputVars, envVars, query,
                 buildVars, renderVars, enabled, pressed_state, toggle_state, handlers,
                 rectVars>>

\* the assignments made: either button and the nested Panel get any other
\* control, or none, as parent; the topmost Panel keeps having none
Reparent == \E c \in {"B1", "B2", "W2"} : \E v \in CtlOrNone \ {c} : SetParent(c, v)

NextParent == Reparent \/ Hit

SpecParent == InitTree /\ [][NextParent]_vars

(***************************************************************************)
(* Properties of the controls' tree messages                               *)
(***************************************************************************)
\* C23: HIT_TEST on a container returns no control when the container's
\* local visible flag is false or the position is outside its bounds;
\* otherwise the result of the last child, in child order, whose own hit
\* test matched, and the container itself when no child matched
HitTestContainer ==
  \A c \in Containers :
    (sent = <<Msg("HIT_TEST", c, "none")>>)
    => LET matched == {i \in 1..Len(children[c]) : HitTest(children[c][i], mouse) # None}
           last == CHOOSE i \in matched : \A j \in matched : j <= i
       IN  IF ~visible[c] \/ ~Contains(GetBounds(c), mouse) THEN returned = None
           ELSE IF matched = {} THEN returned = c
           ELSE returned = HitTest(children[c][last], mouse)

\* the topmost Panel was asked at a position where its first child and its
\* last child both match, and answered with the last child's result
HitLastChild ==
  /\ sent = <<Msg("HIT_TEST", "W1", "none")>>
  /\ children["W1"] = <<"B1", "W2">>
  /\ HitTest("B1", mouse) = "B1"
  /\ HitTest("W2", mouse) = "B2"
  /\ returned = "B2"

\* C24: ADD_CHILD with a control that is a child leaves the child sequence
\* and the selection index as they were and returns false; REMOVE_CHILD
\* with a control that is not a child leaves them as they were; no child
\* sequence holds a control twice
ChildMessagesIdempotent ==
  /\ [][\A a \in Adoptions :
          (AddChildMsg(a[1], a[2]) /\ InSeq(children[a[1]], a[2]))
          => (children' = children /\ selected' = selected /\ returned' = "false")]_vars
  /\ [][\A a \in Adoptions :
          (RemoveChildMsg(a[1], a[2]) /\ ~InSeq(children[a[1]], a[2]))
          => (children' = children /\ selected' = selected)]_vars
  /\ [](\A w \in Containers : \A i, j \in 1..Len(children[w]) :
          children[w][i] = children[w][j] => i = j)

\* the control a container's selection index points at
SelectedOf(w) == children[w][selected[w] + 1]

\* C35: a container's selection index is -1 or an index into its child
\* sequence; REMOVE_CHILD with a child other than the selected one leaves
\* the same control selected; SELECT with a control that is not a direct
\* child changes neither the selection nor the children and returns false
SelectionValid ==
  /\ [](\A w \in Containers : selected[w] \in -1..(Len(children[w]) - 1))
  /\ [][\A a \in Adoptions :
          (/\ selected[a[1]] >= 0 /\ SelectedOf(a[1]) # a[2]
           /\ RemoveChildMsg(a[1], a[2]))
          => (selected'[a[1]] >= 0
              /\ children'[a[1]][selected'[a[1]] + 1] = SelectedOf(a[1]))]_vars
  /\ [][\A k \in Ctl :
          (~InSeq(children["W1"], k) /\ SelectMsg("W1", k))
          => (selected' = selected /\ children' = children
              /\ returned' = "false")]_vars

\* C35 witness: the child in front of the selected one has just been
\* removed, and the selection index has followed the selected control
SelectionFollowed ==
  /\ sent = <<Msg("REMOVE_CHILD", "W1", "B1")>>
  /\ children["W1"] = <<"W2">>
  /\ selected["W1"] = 0

\* C36: every control is in the child sequence of at most one container,
\* it is in a container's child sequence exactly when that container is
\* its parent, and giving a control with parent A the parent B takes it
\* out of A's children
ParentMatchesChildren ==
  /\ [](\A c \in Ctl : Cardinality({w \in Containers : InSeq(children[w], c)}) <= 1)
  /\ [](\A c \in Ctl : \A w \in Containers : InSeq(children[w], c) <=> parent[c] = w)
  /\ [][\A c \in Ctl : \A A, B \in Containers :
          (parent[c] = A /\ A # B /\ c # B /\ SetParent(c, B))
          => ~InSeq(children'[A], c)]_vars

(***************************************************************************)
(* Rendering: RENDER_BACKGROUND, RENDER and RENDER_FOREGROUND, the clip    *)
(* stack and the invalidated list of the renderer                          *)
(***************************************************************************)
\* the most rectangles the invalidated list holds when a message is sent
MaxInvalidated == 1

\* Rectangle.empty
Empty(r) == r.width = 0 \/ r.height = 0

\* Rectangle.intersects: the edges count
Intersects(s, o) ==
  ~(\/ s.left > o.left + o.width \/ o.left > s.left + s.width
    \/ s.top > o.top + o.height \/ o.top > s.top + s.height)

\* Rectangle.intersection: the right and bottom edges of the overlap go
\* where the constructor takes a width and a height
Intersection(s, o) ==
  IF ~Intersects(s, o) THEN Rect(0, 0, 0, 0)
  ELSE Rect(Max2(s.left, o.left), Max2(s.top, o.top),
            Min2(s.left + s.width, o.left + o.width),
            Min2(s.top + s.height, o.top + o.height))

\* Rectangle.expand; the width and height setters stop at 0
Expand(r, sp) ==
  Rect(r.left - sp.left, r.top - sp.top,
       Max2(0, r.width + sp.left + sp.right), Max2(0, r.height + sp.top + sp.bottom))

\* Control.get_render_bounds
GetRenderBounds(c) == Expand(GetBounds(c), Margin(c))

\* the display Application.start opens
DisplayRect == Rect(0, 0, 960, 540)

\* RendererBase.get_cliprect
GetClipRect(stack) == IF stack # <<>> THEN stack[Len(stack)] ELSE DisplayRect

\* RendererBase.push_cliprect, pop_cliprect, add_invalidated_rect and
\* render, on the record st of the renderer's state, the render calls made
\* and the exception raised
PushClip(st, r) == [st EXCEPT !.stack = Append(@, r)]
PopClip(st) ==
  IF st.stack # <<>> THEN [st EXCEPT !.stack = SubSeq(@, 1, Len(@) - 1)] ELSE st
AddInvalidated(st, r) == [st EXCEPT !.inval = Append(@, r)]
RenderCall(st, c, layer) == [st EXCEPT !.sent = Append(@, Msg("render", c, layer))]

\* a render message a container sends to a child, kept with the render
\* calls in the order they are made; nothing is sent once an exception is
\* on its way
Sending(st, m, child) ==
  IF st.err # "none" THEN st ELSE [st EXCEPT !.sent = Append(@, Msg(m, child, "none"))]

\* RENDER_BACKGROUND and RENDER_FOREGROUND, of Control and ContainerControl
LayerMessage(c, flag, clip, st) ==
  LET invalid == Intersection(clip, GetRenderBounds(c))
  IN  IF st.err # "none" \/ flag \notin layers[c] \/ Empty(invalid) THEN st
      ELSE PopClip(RenderCall(PushClip(AddInvalidated(st, invalid), invalid), c, flag))

\* RENDER of Control and ContainerControl: the clip pushed, the layer above
\* the background, the children of a container, each with its three
\* messages, the layer below the foreground, the clip popped. A child that
\* is invisible or outside the render bounds ends the handler in a
\* RuntimeError, both layers in a GrUsInRendererError, the clip not popped
RECURSIVE RenderMessage(_, _, _)
RECURSIVE RenderChildren(_, _, _, _)
RenderMessage(c, clip, st) ==
  LET render_bounds == GetRenderBounds(c)
      invalid == Intersection(clip, render_bounds)
      above == RL_ABOVE_BACKGROUND \in layers[c]
      below == RL_BELOW_FOREGROUND \in layers[c]
      s1 == PushClip(AddInvalidated(st, invalid), invalid)
      s2 == IF above THEN RenderCall(s1, c, RL_ABOVE_BACKGROUND) ELSE s1
  IN  IF st.err # "none" \/ Empty(invalid) THEN st
      ELSE Bind(IF c \in Containers THEN RenderChildren(c, 1, render_bounds, s2) ELSE s2,
                LAMBDA s3 :
                  IF s3.err # "none" THEN s3
                  ELSE IF below /\ above THEN [s3 EXCEPT !.err = "GrUsInRendererError"]
                  ELSE PopClip(IF below THEN RenderCall(s3, c, RL_BELOW_FOREGROUND)
                               ELSE s3))

RenderChildren(c, i, render_bounds, st) ==
  IF i > Len(children[c]) \/ st.err # "none" THEN st
  ELSE LET child == children[c][i]
           child_render_bounds == Expand(GetBounds(child), Padding(child))
       IN  IF Intersects(render_bounds, child_render_bounds) /\ Visible(child)
           THEN Bind(LayerMessage(child, RL_BACKGROUND, render_bounds,
                                  Sending(st, "RENDER_BACKGROUND", child)), LAMBDA s1 :
                Bind(RenderMessage(child, render_bounds,
                                   Sending(s1, "RENDER", child)), LAMBDA s2 :
                Bind(LayerMessage(child, RL_FOREGROUND, render_bounds,
                                  Sending(s2, "RENDER_FOREGROUND", child)), LAMBDA s3 :
                RenderChildren(c, i + 1, render_bounds, s3))))
           ELSE [st EXCEPT !.err = "RuntimeError"]

RenderMessages == {"RENDER_BACKGROUND", "RENDER", "RENDER_FOREGROUND"}

\* process_message for the three render messages
Handle(c, m, clip, st) ==
  CASE m = "RENDER_BACKGROUND" -> LayerMessage(c, RL_BACKGROUND, clip, st)
    [] m = "RENDER" -> RenderMessage(c, clip, st)
    [] OTHER -> LayerMessage(c, RL_FOREGROUND, clip, st)

RenderState == [stack |-> cliprect_stack, inval |-> invalidated, sent |-> <<>>, err |-> "none"]

\* one render message sent to a control with a clip area
SendRender(c, m, clip) ==
  /\ err = "none"
  /\ Len(invalidated) < MaxInvalidated
  /\ \E st \in {Handle(c, m, clip, RenderState)} :
       /\ cliprect_stack' = st.stack
       /\ invalidated' = st.inval
       /\ sent' = st.sent
       /\ err' = st.err
  /\ UNCHANGED <<treeVars, inputVars, mouse, query, buildVars, layers, widgetVars, rectVars>>

\* the loop of UIRuntime.validate from the i-th topmost control on
RECURSIVE ValidateFrom(_, _)
ValidateFrom(i, st) ==
  IF i > Len(controls) \/ st.err # "none" THEN st
  ELSE LET c == controls[i]
       IN  IF ~Visible(c) THEN ValidateFrom(i + 1, st)
           ELSE Bind(LayerMessage(c, RL_BACKGROUND, GetClipRect(st.stack), st), LAMBDA s1 :
                Bind(RenderMessage(c, GetClipRect(s1.stack), s1), LAMBDA s2 :
                Bind(LayerMessage(c, RL_FOREGROUND, GetClipRect(s2.stack), s2), LAMBDA s3 :
                ValidateFrom(i + 1, s3))))

\* UIRuntime.validate: the three messages to every visible topmost control,
\* then RendererBase.update, which empties the invalidated list
Validate ==
  /\ err = "none"
  /\ \E st \in {ValidateFrom(1, RenderState)} :
       /\ cliprect_stack' = st.stack
       /\ invalidated' = IF st.err = "none" THEN <<>> ELSE st.inval
       /\ sent' = st.sent
       /\ err' = st.err
  /\ UNCHANGED <<treeVars, inputVars, mouse, query, buildVars, layers, widgetVars, rectVars>>

\* the deepest clip stack at which push_cliprect is called from outside a
\* render message
MaxClips == 1

\* RendererBase.push_cliprect with a rectangle, which is true as every
\* Rectangle is, having the length 4
PushCliprect(r) ==
  /\ err = "none"
  /\ Len(cliprect_stack) <= MaxClips
  /\ cliprect_stack' = PushClip(RenderState, r).stack
  /\ sent' = <<>>
  /\ UNCHANGED <<treeVars, inputVars, envVars, query, buildVars, invalidated, layers,
                 widgetVars, rectVars>>

\* RendererBase.pop_cliprect
PopCliprect ==
  /\ err = "none"
  /\ cliprect_stack' = PopClip(RenderState).stack
  /\ sent' = <<>>
  /\ UNCHANGED <<treeVars, inputVars, envVars, query, buildVars, invalidated, layers,
                 widgetVars, rectVars>>

\* the render_layers a theme declares for W1 and B1
LayerChoices ==
  {SkinLayers, {RL_BACKGROUND}, {RL_BACKGROUND, RL_BELOW_FOREGROUND},
   {RL_ABOVE_BACKGROUND, RL_BELOW_FOREGROUND}}

\* the clip areas sent: the display, an area over the left of W1 and B1,
\* an area that meets no control
ClipAreas == {DisplayRect, Rect(0, 0, 12, 20), Rect(100, 100, 5, 5)}

\* the scene of Spec under a theme, nothing rendered yet
InitRender ==
  /\ controls = <<"W1", "W2">>
  /\ parent = SceneParent
  /\ bounds = SceneBounds
  /\ children = SceneChildren
  /\ visible = [c \in Ctl |-> TRUE]
  /\ behavior = [c \in Ctl |-> {BE_SELECTABLE}]
  /\ selected = [c \in Containers |-> -1]
  /\ RuntimeInit
  /\ active = None
  /\ mouse = Origin
  /\ created = Ctl
  /\ init_stack = <<Sentinel>>
  /\ cursor_stack = <<SceneCursor>>
  /\ call = NoCall
  /\ shown = NoShown
  /\ RendererInit
  /\ WidgetInit
  /\ \E l1, l2 \in LayerChoices :
       layers = [c \in Ctl |-> CASE c = "W1" -> l1 [] c = "B1" -> l2 [] OTHER -> SkinLayers]

Send == \E c \in Ctl : \E m \in RenderMessages : \E clip \in ClipAreas : SendRender(c, m, clip)
ShowScene == \E c \in {"W1", "B1"} : \E v \in BOOLEAN : SetVisible(c, v)

PushAny == \E r \in ClipAreas : PushCliprect(r)

NextRender == Send \/ Validate \/ ShowScene \/ PushAny \/ PopCliprect

SpecRender == InitRender /\ [][NextRender]_vars

(***************************************************************************)
(* Properties of rendering                                                 *)
(***************************************************************************)
BothLayers(c) == {RL_ABOVE_BACKGROUND, RL_BELOW_FOREGROUND} \subseteq layers[c]

\* C9: RENDER sent to a control, plain or container, whose render layers
\* hold both ABOVE_BACKGROUND and BELOW_FOREGROUND, with a clip area that
\* meets its render bounds, raises the renderer's configuration error
BothLayersFatal ==
  [][\A c \in Ctl : \A clip \in ClipAreas :
       (/\ BothLayers(c)
        /\ ~Empty(Intersection(clip, GetRenderBounds(c)))
        /\ SendRender(c, "RENDER", clip))
       => err' = "GrUsInRendererError"]_vars

\* C10: when the handling of a render message ends, by a normal return or
\* by the configuration error, the clip stack is what it was when the
\* handling began
ClipStackNested ==
  [][(/\ \E c \in Ctl : \E m \in RenderMessages : \E clip \in ClipAreas :
           SendRender(c, m, clip)
      /\ err' \in {"none", "GrUsInRendererError"})
       => cliprect_stack' = cliprect_stack]_vars

\* the render calls a control made for itself and the render messages sent
\* to the controls of kids, in the order of s
OwnAndKids(s, c, kids) ==
  SelectSeq(s, LAMBDA e : \/ (e.msg = "render" /\ e.to = c)
                          \/ (e.msg \in RenderMessages /\ e.to \in kids))

\* the three render messages for each control of a sequence, in its order
RECURSIVE ThreeEach(_)
ThreeEach(seq) ==
  IF seq = <<>> THEN <<>>
  ELSE <<Msg("RENDER_BACKGROUND", Head(seq), "none"), Msg("RENDER", Head(seq), "none"),
         Msg("RENDER_FOREGROUND", Head(seq), "none")>> \o ThreeEach(Tail(seq))

\* C25: RENDER sent to a container with a clip area that meets its render
\* bounds, neither the container nor a control below it declaring both
\* layers of the RENDER stage, completes;
\* the container draws its ABOVE_BACKGROUND layer if it declares it, then
\* each child that is visible and whose render bounds meet the container's
\* receives RENDER_BACKGROUND, RENDER and RENDER_FOREGROUND, in child
\* order, and no other child receives a render message, then the container
\* draws its BELOW_FOREGROUND layer if it declares it
ContainerRenderOrder ==
  [][\A c \in Containers : \A clip \in ClipAreas :
       (/\ \A d \in {c} \cup Descendants(c) : ~BothLayers(d)
        /\ ~Empty(Intersection(clip, GetRenderBounds(c)))
        /\ SendRender(c, "RENDER", clip))
       => LET kids == {children[c][i] : i \in 1..Len(children[c])}
              due == SelectSeq(children[c],
                       LAMBDA k : Visible(k) /\ Intersects(GetRenderBounds(c),
                                                           GetRenderBounds(k)))
          IN  /\ err' = "none"
              /\ OwnAndKids(sent', c, kids) =
                   (IF RL_ABOVE_BACKGROUND \in layers[c]
                    THEN <<Msg("render", c, RL_ABOVE_BACKGROUND)>> ELSE <<>>)
                   \o ThreeEach(due)
                   \o (IF RL_BELOW_FOREGROUND \in layers[c]
                       THEN <<Msg("render", c, RL_BELOW_FOREGROUND)>> ELSE <<>>)]_vars

\* the overlap of two rectangles that meet in more than an edge
Overlap(a, b) ==
  Rect(Max2(a.left, b.left), Max2(a.top, b.top),
       Min2(Right(a), Right(b)) - Max2(a.left, b.left),
       Min2(Bottom(a), Bottom(b)) - Max2(a.top, b.top))

\* C26: after push_cliprect(r) the current clip is the intersection of r and
\* the clip that was current before, empty where the two do not overlap;
\* pop_cliprect on a stack that is not empty makes the clip current that was
\* below the top, the display when nothing was
PushNarrowsClip ==
  /\ [][\A r \in ClipAreas :
          PushCliprect(r)
          => LET before == GetClipRect(cliprect_stack)
                 now == GetClipRect(cliprect_stack')
                 o == Overlap(r, before)
             IN  IF o.width > 0 /\ o.height > 0 THEN now = o ELSE Empty(now)]_vars
  /\ [][(PopCliprect /\ cliprect_stack # <<>>)
          => GetClipRect(cliprect_stack') =
               IF Len(cliprect_stack) > 1
               THEN cliprect_stack[Len(cliprect_stack) - 1] ELSE DisplayRect]_vars

\* the layers a render message draws
StageLayers(m) ==
  CASE m = "RENDER_BACKGROUND" -> {RL_BACKGROUND}
    [] m = "RENDER" -> {RL_ABOVE_BACKGROUND, RL_BELOW_FOREGROUND}
    [] OTHER -> {RL_FOREGROUND}

\* C27: a render message that a control without children handles to its
\* end appends a rectangle to the invalidated list only if it makes a
\* render call: nothing is appended when the control declares no layer of
\* the stage or when the clip area does not meet its render bounds; when
\* validate has returned the invalidated list is empty
DamageOnlyWhenDrawn ==
  /\ [][\A c \in Ctl \ Containers : \A m \in RenderMessages : \A clip \in ClipAreas :
          (SendRender(c, m, clip) /\ err' = "none")
          => /\ invalidated' # invalidated => Count(sent', "render") > 0
             /\ (\/ StageLayers(m) \cap layers[c] = {}
                 \/ Empty(Intersection(clip, GetRenderBounds(c))))
                => invalidated' = invalidated]_vars
  /\ [][(Validate /\ err' = "none") => invalidated' = <<>>]_vars

(***************************************************************************)
(* SpecRect: the methods of one Rectangle                                  *)
(***************************************************************************)
BC_LEFT == "LEFT"
BC_TOP == "TOP"
BC_RIGHT == "RIGHT"
BC_BOTTOM == "BOTTOM"
BC_ALL == {BC_LEFT, BC_TOP, BC_RIGHT, BC_BOTTOM}

\* the setters of Rectangle: width and height stop at 0, right and bottom
\* move the rectangle
SetLeft(r, v) == [r EXCEPT !.left = v]
SetTop(r, v) == [r EXCEPT !.top = v]
SetWidth(r, v) == [r EXCEPT !.width = Max2(0, v)]
SetHeight(r, v) == [r EXCEPT !.height = Max2(0, v)]
SetRight(r, v) == [r EXCEPT !.left = v - r.width]
SetBottom(r, v) == [r EXCEPT !.top = v - r.height]

\* Rectangle.set_bounds: the four edges in the order left, right, top,
\* bottom, each through the setters
SetBounds(r, left, top, right, bottom, changed) ==
  LET r1 == IF BC_LEFT \in changed /\ left # r.left
            THEN SetLeft(SetWidth(r, Right(r) - left), left) ELSE r
      r2 == IF BC_RIGHT \in changed /\ right # Right(r1)
            THEN SetRight(SetWidth(r1, right - r1.left), right) ELSE r1
      r3 == IF BC_TOP \in changed /\ top # r2.top
            THEN SetTop(SetHeight(r2, Bottom(r2) - top), top) ELSE r2
  IN  IF BC_BOTTOM \in changed /\ bottom # Bottom(r3)
      THEN SetBottom(SetHeight(r3, bottom - r3.top), bottom) ELSE r3

\* rectangle.set_bounds(...), which returns the rectangle
SetBoundsCall(left, top, right, bottom, changed) ==
  /\ err = "none"
  /\ rect' = SetBounds(rect, left, top, right, bottom, changed)
  /\ result' = rect'
  /\ sent' = <<>>
  /\ UNCHANGED <<treeVars, inputVars, envVars, query, buildVars, renderVars, widgetVars>>

\* rectangle.intersection(o)
IntersectionCall(o) ==
  /\ err = "none"
  /\ result' = Intersection(rect, o)
  /\ sent' = <<>>
  /\ UNCHANGED <<treeVars, inputVars, envVars, query, buildVars, renderVars, widgetVars,
                 rect>>

\* the rectangles and the edges tried: integer coordinates on both sides of
\* 0, sizes from 0 on
Lefts == {-4, 0, 3}
Tops == {0, 2}
Widths == {0, 2, 4}
Heights == {0, 3}
Rects == {Rect(l, t, w, h) : l \in Lefts, t \in Tops, w \in Widths, h \in Heights}
XEdges == {-4, 0, 2, 5}
YEdges == {0, 4}

InitRect ==
  /\ controls = <<"W1", "W2">>
  /\ parent = SceneParent
  /\ bounds = SceneBounds
  /\ children = SceneChildren
  /\ visible = [c \in Ctl |-> TRUE]
  /\ behavior = [c \in Ctl |-> {BE_SELECTABLE}]
  /\ selected = [c \in Containers |-> -1]
  /\ RuntimeInit
  /\ active = None
  /\ mouse = Origin
  /\ created = Ctl
  /\ init_stack = <<Sentinel>>
  /\ cursor_stack = <<SceneCursor>>
  /\ call = NoCall
  /\ shown = NoShown
  /\ cliprect_stack = <<>>
  /\ invalidated = <<>>
  /\ layers = [c \in Ctl |-> SkinLayers]
  /\ enabled = [c \in Ctl |-> TRUE]
  /\ pressed_state = [c \in Ctl \ Containers |-> BPS_NORMAL]
  /\ toggle_state = [c \in Ctl \ Containers |-> BTS_OFF]
  /\ handlers = [c \in Ctl |-> {}]
  /\ invoked = <<>>
  /\ returned = "none"
  /\ rect \in Rects
  /\ result = rect

Resize ==
  \E left, right \in XEdges : \E top, bottom \in YEdges : \E changed \in SUBSET BC_ALL :
    SetBoundsCall(left, top, right, bottom, changed)
Intersect == \E o \in Rects : IntersectionCall(o)

NextRect == Resize \/ Intersect

SpecRect == InitRect /\ [][NextRect]_vars

(***************************************************************************)
(* Properties of Rectangle                                                 *)
(***************************************************************************)
\* C28: for a rectangle A and a rectangle B of non-negative sizes,
\* A.intersection(B) has the area 0 if and only if A.intersects(B) is false
EmptyIffDisjoint ==
  [][\A o \in Rects :
       IntersectionCall(o)
       => ((result'.width * result'.height = 0) <=> ~Intersects(rect, o))]_vars

\* C29: set_bounds moves an edge only if its bit is in the changed mask and
\* the new value is not the edge's; with one bit in the mask the opposite
\* edge stays where it was, also when the new value lies beyond it
OppositeEdgeStays ==
  [][\A left, right \in XEdges : \A top, bottom \in YEdges : \A changed \in SUBSET BC_ALL :
       SetBoundsCall(left, top, right, bottom, changed)
       => /\ rect'.left # rect.left => (BC_LEFT \in changed /\ left # rect.left)
          /\ Right(rect') # Right(rect) => (BC_RIGHT \in changed /\ right # Right(rect))
          /\ rect'.top # rect.top => (BC_TOP \in changed /\ top # rect.top)
          /\ Bottom(rect') # Bottom(rect) => (BC_BOTTOM \in changed /\ bottom # Bottom(rect))
          /\ changed = {BC_LEFT} => Right(rect') = Right(rect)
          /\ changed = {BC_RIGHT} => rect'.left = rect.left
          /\ changed = {BC_TOP} => Bottom(rect') = Bottom(rect)
          /\ changed = {BC_BOTTOM} => rect'.top = rect.top]_vars

====
